---- MODULE Spec2Model ----
(***************************************************************************)
(* Verification model of the lyrae-client risk engine and its fixed-point  *)
(* codec.                                                                  *)
(*                                                                         *)
(* I80F48 objects are modelled by the integer held in their `data` field   *)
(* (a bn.js BN).  The source format has 48 fractional bits in a 128-bit    *)
(* word; TLC computes with 32-bit integers, so the format is scaled to     *)
(* FracBits fractional bits in a word of NumBytes bytes.  Every value set  *)
(* below is written in units of ONE_I80F48 so that it scales with the      *)
(* format.  The health computations run on snapshots whose magnitudes stay *)
(* far inside the word, as on-chain amounts stay far inside +-2^79; the    *)
(* constructor's range guard is InRange and is exercised by the codec and  *)
(* fixed-point specifications.                                             *)
(***************************************************************************)
EXTENDS Integers, Sequences, FiniteSets, TLC

\* ------------------------------------------------------------------ bounds
\* fractional bits of the scaled fixed-point format (I80F48.FRACTIONS is 48)
FracBits == 4
\* number of registered oracles in the group snapshots (at most MAX_PAIRS)
NumOracles == 2
\* bytes of the scaled fixed-point word (the I80F48 blob has 16)
NumBytes == 2
\* calls a caller makes on one set of held health components
MaxCalls == 2

\* ------------------------------------------------------ program constants
MAX_TOKENS == 16
MAX_PAIRS == MAX_TOKENS - 1
QUOTE_INDEX == MAX_TOKENS - 1
BitsPerByte == 8

RECURSIVE Pow(_, _)
Pow(b, n) == IF n <= 0 THEN 1 ELSE b * Pow(b, n - 1)

Abs(x) == IF x < 0 THEN -x ELSE x

\* --------------------------------------------------------------- bn.js BN
\* BN keeps sign and magnitude: shifts act on the magnitude, div truncates
\* toward zero.
bnUshln(x, bits) == x * Pow(2, bits)

bnUshrn(x, bits) == IF x < 0 THEN -((-x) \div Pow(2, bits)) ELSE x \div Pow(2, bits)

bnDiv(a, b) ==
  IF (a < 0) = (b < 0) THEN Abs(a) \div Abs(b) ELSE -(Abs(a) \div Abs(b))

\* ----------------------------------------------------------------- I80F48
MAX_SIZE == BitsPerByte * NumBytes
FRACTIONS == FracBits
MULTIPLIER_BN == Pow(2, FRACTIONS)
MAX_BN == (Pow(2, MAX_SIZE) \div 2) - 1
MIN_BN == -(Pow(2, MAX_SIZE) \div 2)

\* faulty variant: the lower bound itself is refused
InRange_exclusiveMin(data) == ~(data <= MIN_BN \/ data > MAX_BN)

\* the constructor's guard: data.lt(MIN_BN) || data.gt(MAX_BN) throws
InRange(data) == ~(data < MIN_BN \/ data > MAX_BN)

ONE_I80F48 == MULTIPLIER_BN
ZERO_I80F48 == 0
NEG_ONE_I80F48 == -MULTIPLIER_BN

fromI64(x) == bnUshln(x, FRACTIONS)
fromU64(x) == bnUshln(x, FRACTIONS)

\* fromNumber(num / den) for a JavaScript number given as a ratio, den > 0:
\* the integer part shifted left, plus the truncated scaled fraction
fromNumber(num, den) ==
  LET m == Abs(num)
      v == bnUshln(m \div den, FRACTIONS) + ((m % den) * MULTIPLIER_BN) \div den
  IN IF num < 0 THEN -v ELSE v

\* fromNumber(Math.pow(10, e))
fromPow10(e) == IF e >= 0 THEN fromNumber(Pow(10, e), 1) ELSE fromNumber(1, Pow(10, -e))

add(a, b) == a + b
sub(a, b) == a - b
iadd(a, b) == a + b
isub(a, b) == a - b
mul(a, b) == bnUshrn(a * b, FRACTIONS)
imul(a, b) == bnUshrn(a * b, FRACTIONS)
div(a, b) == bnDiv(bnUshln(a, FRACTIONS), b)

gt(a, b) == a > b
lt(a, b) == a < b
gte(a, b) == a >= b
lte(a, b) == a <= b
neg(a) == mul(a, NEG_ONE_I80F48)
isPos(a) == gt(a, ZERO_I80F48)
isNeg(a) == a < 0
isZero(a) == a = ZERO_I80F48
min(a, b) == IF lte(a, b) THEN a ELSE b
max(a, b) == IF gte(a, b) THEN a ELSE b
abs(a) == IF isNeg(a) THEN neg(a) ELSE a

\* toBig().round(undefined, 0): Big's mode 0 rounds toward zero;
\* mode 3 rounds away from zero
floor(a) == bnUshln(bnUshrn(a, FRACTIONS), FRACTIONS)
ceil(a) ==
  LET t == floor(a)
  IN IF t = a THEN a ELSE IF a < 0 THEN t - MULTIPLIER_BN ELSE t + MULTIPLIER_BN

\* fromBig(x) for x = num / den in units of one: x * 2^FRACTIONS rounded
\* half away from zero (Big's default mode 1)
fromBig(num, den) ==
  LET m == Abs(num) * MULTIPLIER_BN
      q == (2 * m + den) \div (2 * den)
  IN IF num < 0 THEN -q ELSE q

nativeI80F48ToUi(amount, decimals) == div(amount, fromPow10(decimals))

\* ------------------------------------------------------------------ state
VARIABLES
  group,     \* LyraeGroup snapshot: numOracles, tokens, spotMarkets, perpMarkets
  cache,     \* LyraeCache snapshot: priceCache, rootBankCache, perpMarketCache
  account,   \* LyraeAccount snapshot
  pc,        \* the caller: "idle" or "returned"
  called,    \* the method the caller invoked last, with its arguments
  result,    \* what that call returned
  comp,      \* the { spot, perps, quote } objects a caller holds
  ncalls,    \* calls made on the held components
  x,         \* codec: the I80F48 being encoded
  buf,       \* codec: what encoding x returned (the bytes)
  y          \* codec: what decoding the bytes returned

vars == <<group, cache, account, pc, called, result, comp, ncalls, x, buf, y>>

Markets == 0 .. (NumOracles - 1)
Tokens == Markets \cup {QUOTE_INDEX}
HealthTypes == {"Init", "Maint"}

\* ------------------------------------------------------- snapshot samples
Units(n) == n * ONE_I80F48
Frac(n, d) == (n * ONE_I80F48) \div d

NoOpenOrders ==
  [loaded |-> FALSE, baseTokenFree |-> 0, baseTokenTotal |-> 0,
   quoteTokenFree |-> 0, quoteTokenTotal |-> 0, referrerRebatesAccrued |-> 0]

\* resting bids lock quote, resting asks lock base
BidOpenOrders ==
  [loaded |-> TRUE, baseTokenFree |-> 1, baseTokenTotal |-> 1,
   quoteTokenFree |-> 2, quoteTokenTotal |-> 62, referrerRebatesAccrued |-> 1]

AskOpenOrders ==
  [loaded |-> TRUE, baseTokenFree |-> 2, baseTokenTotal |-> 12,
   quoteTokenFree |-> 3, quoteTokenTotal |-> 3, referrerRebatesAccrued |-> 0]

NoPerpAccount ==
  [basePosition |-> 0, quotePosition |-> ZERO_I80F48, takerBase |-> 0,
   takerQuote |-> 0, bidsQuantity |-> 0, asksQuantity |-> 0,
   longSettledFunding |-> ZERO_I80F48, shortSettledFunding |-> ZERO_I80F48]

PerpAccountSamples ==
  { NoPerpAccount,
    [NoPerpAccount EXCEPT !.basePosition = 6, !.quotePosition = -Units(50),
                          !.bidsQuantity = 2, !.asksQuantity = 1,
                          !.longSettledFunding = Units(1)],
    [NoPerpAccount EXCEPT !.basePosition = -5, !.quotePosition = Units(70),
                          !.asksQuantity = 3, !.takerBase = -1, !.takerQuote = 4,
                          !.shortSettledFunding = Units(1)],
    [NoPerpAccount EXCEPT !.basePosition = 1, !.quotePosition = Units(3),
                          !.asksQuantity = 4],
    [NoPerpAccount EXCEPT !.basePosition = -20, !.quotePosition = Units(60),
                          !.bidsQuantity = 1] }

\* one market of a snapshot: the account's balance, open orders and perp
\* position there, with the cached price
Profile(dep, bor, oo, basket, registered, perp, price) ==
  [deposit |-> dep, borrow |-> bor, openOrders |-> oo, inMarginBasket |-> basket,
   registered |-> registered, perp |-> perp, price |-> price]

Balances == { <<0, 0>>, <<Units(30), 0>>, <<0, Units(20)>>, <<Units(4), Units(1)>> }

SpotProfiles ==
  { Profile(b[1], b[2], o[1], o[2], FALSE, NoPerpAccount, Frac(3, 2)) :
      b \in Balances,
      o \in { <<NoOpenOrders, FALSE>>, <<BidOpenOrders, TRUE>>,
              <<AskOpenOrders, TRUE>>, <<AskOpenOrders, FALSE>> } }
  \cup
  \* a deposit and a borrow of equal value: assets equal liabilities
  { Profile(Units(6), Units(5), NoOpenOrders, FALSE, FALSE, NoPerpAccount, Frac(3, 2)) }

PerpProfiles ==
  { Profile(b[1], b[2], NoOpenOrders, FALSE, TRUE, a, Units(2)) :
      b \in { <<0, 0>>, <<Units(30), 0>> },
      a \in PerpAccountSamples }

PlainProfiles ==
  { Profile(0, 0, NoOpenOrders, FALSE, FALSE, NoPerpAccount, Units(3)),
    Profile(Units(10), 0, NoOpenOrders, FALSE, FALSE, NoPerpAccount, Units(3)),
    Profile(0, Units(10), BidOpenOrders, TRUE, TRUE,
            [NoPerpAccount EXCEPT !.basePosition = 2, !.quotePosition = -Units(4)],
            Units(3)) }

MarketProfiles(i) == IF i < 2 THEN SpotProfiles \cup PerpProfiles ELSE PlainProfiles

QuoteBalances == { <<0, 0>>, <<Units(40), 0>>, <<0, Units(25)>> }

SpotWeights ==
  [maintAssetWeight |-> Frac(3, 4), maintLiabWeight |-> Frac(5, 4),
   initAssetWeight |-> Frac(1, 2), initLiabWeight |-> Frac(3, 2)]

PerpWeights ==
  [maintAssetWeight |-> Frac(7, 8), maintLiabWeight |-> Frac(9, 8),
   initAssetWeight |-> Frac(3, 4), initLiabWeight |-> Frac(5, 4)]

MkGroup(prof) ==
  [numOracles |-> NumOracles,
   tokens |-> [t \in Tokens |-> [decimals |-> IF t = QUOTE_INDEX THEN 1 ELSE 2]],
   spotMarkets |-> [i \in Markets |-> SpotWeights],
   perpMarkets |-> [i \in Markets |->
      [registered |-> prof[i].registered,
       maintAssetWeight |-> PerpWeights.maintAssetWeight,
       maintLiabWeight |-> PerpWeights.maintLiabWeight,
       initAssetWeight |-> PerpWeights.initAssetWeight,
       initLiabWeight |-> PerpWeights.initLiabWeight,
       baseLotSize |-> 2, quoteLotSize |-> 1]]]

MkCache(prof) ==
  [priceCache |-> [i \in Markets |-> [price |-> prof[i].price]],
   rootBankCache |-> [t \in Tokens |->
      [depositIndex |-> IF t = QUOTE_INDEX THEN Units(1) ELSE Frac(5, 4),
       borrowIndex |-> IF t = QUOTE_INDEX THEN Frac(5, 4) ELSE Frac(3, 2)]],
   perpMarketCache |-> [i \in Markets |->
      [longFunding |-> IF prof[i].registered THEN Units(2) ELSE ZERO_I80F48,
       shortFunding |-> IF prof[i].registered THEN Units(3) ELSE ZERO_I80F48]]]

MkAccount(prof, q, flag) ==
  [deposits |-> [t \in Tokens |-> IF t = QUOTE_INDEX THEN q[1] ELSE prof[t].deposit],
   borrows |-> [t \in Tokens |-> IF t = QUOTE_INDEX THEN q[2] ELSE prof[t].borrow],
   inMarginBasket |-> [i \in Markets |-> prof[i].inMarginBasket],
   spotOpenOrdersAccounts |-> [i \in Markets |-> prof[i].openOrders],
   perpAccounts |-> [i \in Markets |-> prof[i].perp],
   beingLiquidated |-> flag]

NoComponents == [held |-> FALSE, spot |-> <<>>, perps |-> <<>>, quote |-> 0]
NoResult == [kind |-> "none"]

Init ==
  /\ \E prof \in [Markets -> UNION { MarketProfiles(i) : i \in Markets }] :
       /\ \A i \in Markets : prof[i] \in MarketProfiles(i)
       /\ \E q \in QuoteBalances, flag \in BOOLEAN :
            /\ group = MkGroup(prof)
            /\ cache = MkCache(prof)
            /\ account = MkAccount(prof, q, flag)
  /\ pc = "idle"
  /\ called = <<"none">>
  /\ result = NoResult
  /\ comp = NoComponents
  /\ ncalls = 0
  /\ x = ZERO_I80F48
  /\ buf = NoResult
  /\ y = NoResult

\* ------------------------------------------------------------ LyraeGroup
getTokenDecimals(tokenIndex) ==
  IF group.tokens[tokenIndex].decimals = 0 THEN 6 ELSE group.tokens[tokenIndex].decimals

\* fromBig(price.toBig() * 10^(decimals - quote decimals))
getPrice(tokenIndex) ==
  IF tokenIndex = QUOTE_INDEX THEN ONE_I80F48
  ELSE LET e == getTokenDecimals(tokenIndex) - getTokenDecimals(QUOTE_INDEX)
           p == cache.priceCache[tokenIndex].price
       IN IF e >= 0 THEN fromBig(p * Pow(10, e), MULTIPLIER_BN)
          ELSE fromBig(p, MULTIPLIER_BN * Pow(10, -e))

getWeights(marketIndex, healthType) ==
  IF healthType = "Maint" THEN
    [spotAssetWeight |-> group.spotMarkets[marketIndex].maintAssetWeight,
     spotLiabWeight |-> group.spotMarkets[marketIndex].maintLiabWeight,
     perpAssetWeight |-> group.perpMarkets[marketIndex].maintAssetWeight,
     perpLiabWeight |-> group.perpMarkets[marketIndex].maintLiabWeight]
  ELSE IF healthType = "Init" THEN
    [spotAssetWeight |-> group.spotMarkets[marketIndex].initAssetWeight,
     spotLiabWeight |-> group.spotMarkets[marketIndex].initLiabWeight,
     perpAssetWeight |-> group.perpMarkets[marketIndex].initAssetWeight,
     perpLiabWeight |-> group.perpMarkets[marketIndex].initLiabWeight]
  ELSE
    [spotAssetWeight |-> ONE_I80F48, spotLiabWeight |-> ONE_I80F48,
     perpAssetWeight |-> ONE_I80F48, perpLiabWeight |-> ONE_I80F48]

splitOpenOrders(openOrders) ==
  [quoteFree |-> fromU64(openOrders.quoteTokenFree + openOrders.referrerRebatesAccrued),
   quoteLocked |-> fromU64(openOrders.quoteTokenTotal - openOrders.quoteTokenFree),
   baseFree |-> fromU64(openOrders.baseTokenFree),
   baseLocked |-> fromU64(openOrders.baseTokenTotal - openOrders.baseTokenFree)]

\* ----------------------------------------------------------- PerpAccount
\* funding accrued on the base position since it was last settled
getUnsettledFunding(i) ==
  LET pa == account.perpAccounts[i]
      pmc == cache.perpMarketCache[i]
  IN IF pa.basePosition < 0
     THEN mul(fromI64(pa.basePosition), sub(pmc.shortFunding, pa.shortSettledFunding))
     ELSE mul(fromI64(pa.basePosition), sub(pmc.longFunding, pa.longSettledFunding))

getQuotePosition(i) == sub(account.perpAccounts[i].quotePosition, getUnsettledFunding(i))

perpAssetVal(i, price) ==
  LET pa == account.perpAccounts[i]
      base == IF pa.basePosition > 0
              THEN mul(fromI64(pa.basePosition * group.perpMarkets[i].baseLotSize), price)
              ELSE ZERO_I80F48
      q == getQuotePosition(i)
  IN IF gt(q, ZERO_I80F48) THEN add(base, q) ELSE base

perpLiabsVal(i, price) ==
  LET pa == account.perpAccounts[i]
      base == IF pa.basePosition < 0
              THEN mul(fromI64(pa.basePosition * group.perpMarkets[i].baseLotSize), price)
              ELSE ZERO_I80F48
      q == getQuotePosition(i)
  IN neg(IF lt(q, ZERO_I80F48) THEN add(base, q) ELSE base)

\* ---------------------------------------------------------- LyraeAccount
getNativeDeposit(tokenIndex) ==
  mul(cache.rootBankCache[tokenIndex].depositIndex, account.deposits[tokenIndex])

getNativeBorrow(tokenIndex) ==
  mul(cache.rootBankCache[tokenIndex].borrowIndex, account.borrows[tokenIndex])

getUiDeposit(tokenIndex) ==
  nativeI80F48ToUi(floor(getNativeDeposit(tokenIndex)), getTokenDecimals(tokenIndex))

getUiBorrow(tokenIndex) ==
  nativeI80F48ToUi(ceil(getNativeBorrow(tokenIndex)), getTokenDecimals(tokenIndex))

getNet(tokenIndex) ==
  sub(mul(account.deposits[tokenIndex], cache.rootBankCache[tokenIndex].depositIndex),
      mul(account.borrows[tokenIndex], cache.rootBankCache[tokenIndex].borrowIndex))

\* the spot branch of the component loop at market i: the position kept in
\* spot[i] and what is added in place to quote
spotComponent(i) ==
  LET price == cache.priceCache[i].price
      baseNet == getNet(i)
      openOrders == account.spotOpenOrdersAccounts[i]
      oo == splitOpenOrders(openOrders)
      bidsBaseNet == iadd(iadd(add(baseNet, div(oo.quoteLocked, price)), oo.baseFree),
                          oo.baseLocked)
      asksBaseNet == add(baseNet, oo.baseFree)
  IN IF account.inMarginBasket[i] /\ openOrders.loaded
     THEN IF gt(abs(bidsBaseNet), abs(asksBaseNet))
          THEN [pos |-> bidsBaseNet, adj |-> oo.quoteFree]
          ELSE [pos |-> asksBaseNet,
                adj |-> iadd(iadd(mul(oo.baseLocked, price), oo.quoteFree), oo.quoteLocked)]
     ELSE [pos |-> baseNet, adj |-> ZERO_I80F48]

\* faulty variant: the bids position is kept with the asks adjustment and conversely
perpComponent_swappedAdj(i) ==
  LET price == cache.priceCache[i].price
      perpAccount == account.perpAccounts[i]
      baseLotSize == group.perpMarkets[i].baseLotSize
      takerQuote == fromI64(perpAccount.takerQuote * group.perpMarkets[i].quoteLotSize)
      basePos == fromI64((perpAccount.basePosition + perpAccount.takerBase) * baseLotSize)
      bidsQuantity == fromI64(perpAccount.bidsQuantity * baseLotSize)
      asksQuantity == fromI64(perpAccount.asksQuantity * baseLotSize)
      bidsBaseNet == add(basePos, bidsQuantity)
      asksBaseNet == sub(basePos, asksQuantity)
  IN IF group.perpMarkets[i].registered
     THEN IF gt(abs(bidsBaseNet), abs(asksBaseNet))
          THEN [pos |-> bidsBaseNet,
                adj |-> iadd(add(getQuotePosition(i), takerQuote), mul(asksQuantity, price))]
          ELSE [pos |-> asksBaseNet,
                adj |-> isub(add(getQuotePosition(i), takerQuote), mul(bidsQuantity, price))]
     ELSE [pos |-> ZERO_I80F48, adj |-> ZERO_I80F48]

\* the perp branch of the component loop at market i
perpComponent(i) ==
  LET price == cache.priceCache[i].price
      perpAccount == account.perpAccounts[i]
      baseLotSize == group.perpMarkets[i].baseLotSize
      quoteLotSize == group.perpMarkets[i].quoteLotSize
      takerQuote == fromI64(perpAccount.takerQuote * quoteLotSize)
      basePos == fromI64((perpAccount.basePosition + perpAccount.takerBase) * baseLotSize)
      bidsQuantity == fromI64(perpAccount.bidsQuantity * baseLotSize)
      asksQuantity == fromI64(perpAccount.asksQuantity * baseLotSize)
      bidsBaseNet == add(basePos, bidsQuantity)
      asksBaseNet == sub(basePos, asksQuantity)
  IN IF group.perpMarkets[i].registered
     THEN IF gt(abs(bidsBaseNet), abs(asksBaseNet))
          THEN [pos |-> bidsBaseNet,
                adj |-> isub(add(getQuotePosition(i), takerQuote), mul(bidsQuantity, price))]
          ELSE [pos |-> asksBaseNet,
                adj |-> iadd(add(getQuotePosition(i), takerQuote), mul(asksQuantity, price))]
     ELSE [pos |-> ZERO_I80F48, adj |-> ZERO_I80F48]

RECURSIVE componentsLoop(_, _)
componentsLoop(i, c) ==
  IF i >= group.numOracles THEN c
  ELSE LET s == spotComponent(i)
           p == perpComponent(i)
       IN componentsLoop(i + 1,
            [spot |-> [c.spot EXCEPT ![i] = s.pos],
             perps |-> [c.perps EXCEPT ![i] = p.pos],
             quote |-> iadd(iadd(c.quote, s.adj), p.adj)])

getHealthComponents ==
  componentsLoop(0,
    [spot |-> [i \in 0 .. (group.numOracles - 1) |-> ZERO_I80F48],
     perps |-> [i \in 0 .. (group.numOracles - 1) |-> ZERO_I80F48],
     quote |-> getNet(QUOTE_INDEX)])

\* faulty variant: the asset weight is applied to a negative spot position too
spotHealthTerm_assetWeightOnly(spot, i, healthType) ==
  imul(mul(spot[i], cache.priceCache[i].price), getWeights(i, healthType).spotAssetWeight)

\* the weighted value one market adds to health
spotHealthTerm(spot, i, healthType) ==
  LET w == getWeights(i, healthType)
  IN imul(mul(spot[i], cache.priceCache[i].price),
          IF isPos(spot[i]) THEN w.spotAssetWeight ELSE w.spotLiabWeight)

perpHealthTerm(perps, i, healthType) ==
  LET w == getWeights(i, healthType)
  IN imul(mul(perps[i], cache.priceCache[i].price),
          IF isPos(perps[i]) THEN w.perpAssetWeight ELSE w.perpLiabWeight)

RECURSIVE healthLoop(_, _, _, _, _)
healthLoop(i, spot, perps, health, healthType) ==
  IF i >= group.numOracles THEN health
  ELSE healthLoop(i + 1, spot, perps,
         iadd(iadd(health, spotHealthTerm(spot, i, healthType)),
              perpHealthTerm(perps, i, healthType)),
         healthType)

\* `health` is the object passed as `quote`: the value returned is also the
\* value that object holds afterwards
getHealthFromComponents(spot, perps, quote, healthType) ==
  healthLoop(0, spot, perps, quote, healthType)

\* spotHealth and perpHealth are both bound to the object passed as `quote`
\* (const spotHealth = quote; const perpHealth = quote), so each iadd of the
\* loop accumulates into that one object and both fields of the value
\* returned are it
RECURSIVE healthsLoop(_, _, _, _, _)
healthsLoop(i, spot, perps, quote, healthType) ==
  IF i >= group.numOracles THEN quote
  ELSE healthsLoop(i + 1, spot, perps,
         iadd(iadd(quote, spotHealthTerm(spot, i, healthType)),
              perpHealthTerm(perps, i, healthType)),
         healthType)

getHealthsFromComponents(spot, perps, quote, healthType) ==
  LET spotHealth == healthsLoop(0, spot, perps, quote, healthType)
      perpHealth == spotHealth
  IN [spot |-> spotHealth, perp |-> perpHealth]

getHealth(healthType) ==
  LET c == getHealthComponents
  IN getHealthFromComponents(c.spot, c.perps, c.quote, healthType)

RECURSIVE SumFn(_, _)
SumFn(f, n) == IF n <= 0 THEN 0 ELSE add(SumFn(f, n - 1), f[n - 1])

getWeightedAssetsLiabsVals(spot, perps, quote, healthType) ==
  LET n == group.numOracles
      price(i) == cache.priceCache[i].price
      w(i) == getWeights(i, healthType)
      assetTerm(i) ==
        add(IF isPos(spot[i]) THEN mul(mul(spot[i], price(i)), w(i).spotAssetWeight)
            ELSE ZERO_I80F48,
            IF isPos(perps[i]) THEN mul(mul(perps[i], price(i)), w(i).perpAssetWeight)
            ELSE ZERO_I80F48)
      liabTerm(i) ==
        add(IF isPos(spot[i]) THEN ZERO_I80F48
            ELSE mul(mul(neg(spot[i]), price(i)), w(i).spotLiabWeight),
            IF isPos(perps[i]) THEN ZERO_I80F48
            ELSE mul(mul(neg(perps[i]), price(i)), w(i).perpLiabWeight))
  IN [assets |-> add(IF isPos(quote) THEN quote ELSE ZERO_I80F48,
                     SumFn([i \in 0 .. (n - 1) |-> assetTerm(i)], n)),
      liabs |-> add(IF isPos(quote) THEN ZERO_I80F48 ELSE neg(quote),
                    SumFn([i \in 0 .. (n - 1) |-> liabTerm(i)], n))]

\* faulty variant: an account without liabilities gets ratio zero
getHealthRatio_zeroWithoutLiabs(healthType) ==
  LET c == getHealthComponents
      al == getWeightedAssetsLiabsVals(c.spot, c.perps, c.quote, healthType)
  IN IF gt(al.liabs, ZERO_I80F48)
     THEN mul(sub(div(al.assets, al.liabs), ONE_I80F48), fromNumber(100, 1))
     ELSE ZERO_I80F48

\* faulty variant: the ratio is not reduced by one
getHealthRatio_noMinusOne(healthType) ==
  LET c == getHealthComponents
      al == getWeightedAssetsLiabsVals(c.spot, c.perps, c.quote, healthType)
  IN IF gt(al.liabs, ZERO_I80F48)
     THEN mul(div(al.assets, al.liabs), fromNumber(100, 1))
     ELSE fromNumber(100, 1)

getHealthRatio(healthType) ==
  LET c == getHealthComponents
      al == getWeightedAssetsLiabsVals(c.spot, c.perps, c.quote, healthType)
  IN IF gt(al.liabs, ZERO_I80F48)
     THEN mul(sub(div(al.assets, al.liabs), ONE_I80F48), fromNumber(100, 1))
     ELSE fromNumber(100, 1)

getSpotVal(index, assetWeight) ==
  LET price == getPrice(index)
      depositVal == mul(mul(getUiDeposit(index), price), assetWeight)
      openOrdersAccount == account.spotOpenOrdersAccounts[index]
      baseVal == mul(mul(fromNumber(openOrdersAccount.baseTokenTotal,
                                    Pow(10, group.tokens[index].decimals)),
                         price), assetWeight)
      quoteVal == fromNumber(openOrdersAccount.quoteTokenTotal
                               + openOrdersAccount.referrerRebatesAccrued,
                             Pow(10, group.tokens[QUOTE_INDEX].decimals))
  IN IF openOrdersAccount.loaded
     THEN add(add(depositVal, baseVal), quoteVal)
     ELSE depositVal

getAssetsVal(healthType) ==
  LET n == group.numOracles
      assetWeight(i) ==
        IF healthType = "Maint" THEN group.spotMarkets[i].maintAssetWeight
        ELSE IF healthType = "Init" THEN group.spotMarkets[i].initAssetWeight
        ELSE ONE_I80F48
      term(i) ==
        add(getSpotVal(i, assetWeight(i)),
            nativeI80F48ToUi(perpAssetVal(i, cache.priceCache[i].price),
                             group.tokens[QUOTE_INDEX].decimals))
  IN add(getUiDeposit(QUOTE_INDEX), SumFn([i \in 0 .. (n - 1) |-> term(i)], n))

getLiabsVal(healthType) ==
  LET n == group.numOracles
      liabWeight(i) ==
        IF healthType = "Maint" THEN group.spotMarkets[i].maintLiabWeight
        ELSE IF healthType = "Init" THEN group.spotMarkets[i].initLiabWeight
        ELSE ONE_I80F48
      term(i) ==
        add(mul(getUiBorrow(i), mul(getPrice(i), liabWeight(i))),
            nativeI80F48ToUi(perpLiabsVal(i, cache.priceCache[i].price),
                             group.tokens[QUOTE_INDEX].decimals))
  IN add(getUiBorrow(QUOTE_INDEX), SumFn([i \in 0 .. (n - 1) |-> term(i)], n))

computeValue == sub(getAssetsVal("None"), getLiabsVal("None"))

Returns(v) == [kind |-> "value", v |-> v]
Undefined == [kind |-> "undefined"]
Throws == [kind |-> "throws"]

\* faulty variant: leverage is reported only while assets exceed liabilities
getLeverage_onlyWhenSolvent ==
  LET liabs == getLiabsVal("None")
      assets == getAssetsVal("None")
  IN IF gt(assets, liabs)
     THEN Returns(div(liabs, sub(assets, liabs)))
     ELSE Returns(ZERO_I80F48)

\* BN.div asserts a non-zero divisor
getLeverage ==
  LET liabs == getLiabsVal("None")
      assets == getAssetsVal("None")
  IN IF gt(assets, ZERO_I80F48)
     THEN IF isZero(sub(assets, liabs)) THEN Throws
          ELSE Returns(div(liabs, sub(assets, liabs)))
     ELSE Returns(ZERO_I80F48)

\* the other markets' weighted health, folded onto quote
RECURSIVE partialHealthLoop(_, _, _, _)
partialHealthLoop(i, c, oracleIndex, partialHealth) ==
  IF i >= group.numOracles THEN partialHealth
  ELSE LET w == getWeights(i, "Maint")
           price == cache.priceCache[i].price
           spotHealth == mul(mul(c.spot[i], price),
                             IF isPos(c.spot[i]) THEN w.spotAssetWeight
                             ELSE w.spotLiabWeight)
           perpHealth == mul(mul(c.perps[i], price),
                             IF isPos(c.perps[i]) THEN w.perpAssetWeight
                             ELSE w.perpLiabWeight)
       IN partialHealthLoop(i + 1, c, oracleIndex,
            IF i = oracleIndex THEN partialHealth
            ELSE add(add(partialHealth, spotHealth), perpHealth))

\* faulty variant: the weighted position is not negated
weightedAssetAt_notNegated(c, oracleIndex) ==
  LET w == getWeights(oracleIndex, "Maint")
  IN add(mul(c.spot[oracleIndex],
             IF isPos(c.spot[oracleIndex]) THEN w.spotAssetWeight ELSE w.spotLiabWeight),
         mul(c.perps[oracleIndex],
             IF isPos(c.perps[oracleIndex]) THEN w.perpAssetWeight ELSE w.perpLiabWeight))

\* -(weighted spot + weighted perp position) at the market asked about;
\* zero when oracleIndex is not below numOracles
weightedAssetAt(c, oracleIndex) ==
  IF oracleIndex \in 0 .. (group.numOracles - 1)
  THEN LET w == getWeights(oracleIndex, "Maint")
           weightedSpot == mul(c.spot[oracleIndex],
                               IF isPos(c.spot[oracleIndex]) THEN w.spotAssetWeight
                               ELSE w.spotLiabWeight)
           weightedPerps == mul(c.perps[oracleIndex],
                                IF isPos(c.perps[oracleIndex]) THEN w.perpAssetWeight
                                ELSE w.perpLiabWeight)
       IN neg(add(weightedSpot, weightedPerps))
  ELSE ZERO_I80F48

getLiquidationPrice(oracleIndex) ==
  LET c == getHealthComponents
      partialHealth == partialHealthLoop(0, c, oracleIndex, c.quote)
      weightedAsset == weightedAssetAt(c, oracleIndex)
      liqPrice == div(partialHealth, weightedAsset)
  IN IF isZero(weightedAsset) THEN Undefined
     ELSE IF isNeg(liqPrice) THEN Undefined
     ELSE Returns(mul(liqPrice,
                      fromPow10(group.tokens[oracleIndex].decimals
                                  - group.tokens[QUOTE_INDEX].decimals)))

\* faulty variant: the beingLiquidated flag is not consulted
isLiquidatable_ignoresFlag ==
  isNeg(getHealth("Init")) \/ isNeg(getHealth("Maint"))

isLiquidatable ==
  \/ (account.beingLiquidated /\ isNeg(getHealth("Init")))
  \/ isNeg(getHealth("Maint"))

getMarketMarginAvailable(marketIndex, marketType) ==
  LET health == getHealth("Init")
      w == getWeights(marketIndex, "Init")
      weight == IF marketType = "spot" THEN w.spotAssetWeight ELSE w.perpAssetWeight
  IN IF lte(health, ZERO_I80F48) THEN Returns(ZERO_I80F48)
     ELSE IF gte(weight, ONE_I80F48) THEN Returns(health)
     ELSE Returns(div(health, sub(ONE_I80F48, weight)))

getAvailableBalance(tokenIndex) ==
  LET health == getHealth("Init")
      net == getNet(tokenIndex)
      w == getWeights(tokenIndex, "Init")
  IN IF tokenIndex = QUOTE_INDEX THEN Returns(max(min(health, net), ZERO_I80F48))
     ELSE IF isZero(w.spotAssetWeight) \/ isZero(cache.priceCache[tokenIndex].price)
     THEN Throws
     ELSE Returns(max(min(net, div(div(health, w.spotAssetWeight),
                                   cache.priceCache[tokenIndex].price)),
                      ZERO_I80F48))

\* `isPerp` stands for `market instanceof PerpMarket`; the PerpMarket's lot
\* size and base decimals are the group's
getMaxLeverageForMarket(marketIndex, isPerp, side, price) ==
  LET initHealth == getHealth("Init")
      healthDecimals == fromPow10(group.tokens[QUOTE_INDEX].decimals)
      uiInitHealth == div(initHealth, healthDecimals)
      info == IF isPerp THEN group.perpMarkets[marketIndex]
              ELSE group.spotMarkets[marketIndex]
      initLiabWeight == info.initLiabWeight
      initAssetWeight == info.initAssetWeight
      basePos == account.perpAccounts[marketIndex].basePosition
      lots == fromNumber(basePos * group.perpMarkets[marketIndex].baseLotSize,
                         Pow(10, group.tokens[marketIndex].decimals))
      uiDepositVal == IF isPerp
                      THEN IF basePos > 0 THEN mul(lots, price) ELSE ZERO_I80F48
                      ELSE mul(getUiDeposit(marketIndex), price)
      uiBorrowVal == IF isPerp
                     THEN IF basePos > 0 THEN ZERO_I80F48 ELSE mul(abs(lots), price)
                     ELSE mul(getUiBorrow(marketIndex), price)
  IN IF side = "buy"
     THEN IF isZero(sub(ONE_I80F48, initAssetWeight)) THEN Throws
          ELSE Returns(add(div(add(uiInitHealth,
                                   mul(uiBorrowVal, sub(initLiabWeight, ONE_I80F48))),
                               sub(ONE_I80F48, initAssetWeight)),
                           uiBorrowVal))
     ELSE IF isZero(sub(initLiabWeight, ONE_I80F48)) THEN Throws
          ELSE Returns(add(div(add(uiInitHealth,
                                   mul(uiDepositVal, sub(ONE_I80F48, initAssetWeight))),
                               sub(initLiabWeight, ONE_I80F48)),
                           uiDepositVal))

getMaxWithBorrowForToken(tokenIndex) ==
  LET oldInitHealth == floor(getHealth("Init"))
      tokenDeposits == floor(getNativeDeposit(tokenIndex))
      isQuote == tokenIndex = QUOTE_INDEX
      liabWeight == IF isQuote THEN ONE_I80F48
                    ELSE group.spotMarkets[tokenIndex].initLiabWeight
      assetWeight == IF isQuote THEN ONE_I80F48
                     ELSE group.spotMarkets[tokenIndex].initAssetWeight
      nativePrice == IF isQuote THEN ONE_I80F48
                     ELSE cache.priceCache[tokenIndex].price
      newInitHealth == floor(sub(oldInitHealth,
                                 mul(mul(tokenDeposits, nativePrice), assetWeight)))
      price == getPrice(tokenIndex)
      healthDecimals == fromPow10(group.tokens[QUOTE_INDEX].decimals)
  IN IF isZero(mul(price, liabWeight)) THEN Throws
     ELSE Returns(div(div(newInitHealth, healthDecimals), mul(price, liabWeight)))

\* ---------------------------------------------------- the caller's steps
Snapshot == <<group, cache, account>>
Codec == <<x, buf, y>>
Frame == UNCHANGED <<Snapshot, comp, ncalls, Codec>>

Call(name, res) ==
  /\ pc = "idle"
  /\ pc' = "returned"
  /\ called' = name
  /\ result' = res
  /\ Frame

CallGetHealthComponents ==
  Call(<<"getHealthComponents">>, [kind |-> "components", v |-> getHealthComponents])

CallGetHealth ==
  \E healthType \in HealthTypes :
    Call(<<"getHealth", healthType>>, Returns(getHealth(healthType)))

CallGetHealthRatio ==
  \E healthType \in HealthTypes :
    Call(<<"getHealthRatio", healthType>>, Returns(getHealthRatio(healthType)))

CallComputeValue == Call(<<"computeValue">>, Returns(computeValue))

CallGetLeverage == Call(<<"getLeverage">>, getLeverage)

CallGetLiquidationPrice ==
  \E oracleIndex \in Markets :
    Call(<<"getLiquidationPrice", oracleIndex>>, getLiquidationPrice(oracleIndex))

CallIsLiquidatable == Call(<<"isLiquidatable">>, [kind |-> "bool", v |-> isLiquidatable])

CallGetMarketMarginAvailable ==
  \E marketIndex \in Markets, marketType \in {"spot", "perp"} :
    Call(<<"getMarketMarginAvailable", marketIndex, marketType>>,
         getMarketMarginAvailable(marketIndex, marketType))

CallGetAvailableBalance ==
  \E tokenIndex \in Tokens :
    Call(<<"getAvailableBalance", tokenIndex>>, getAvailableBalance(tokenIndex))

CallGetMaxLeverageForMarket ==
  \E marketIndex \in Markets, isPerp \in BOOLEAN, side \in {"buy", "sell"} :
    /\ isPerp => group.perpMarkets[marketIndex].registered
    /\ Call(<<"getMaxLeverageForMarket", marketIndex, isPerp, side>>,
            getMaxLeverageForMarket(marketIndex, isPerp, side, getPrice(marketIndex)))

CallGetMaxWithBorrowForToken ==
  \E tokenIndex \in Tokens :
    Call(<<"getMaxWithBorrowForToken", tokenIndex>>, getMaxWithBorrowForToken(tokenIndex))

\* the caller takes the returned value and is ready for its next call
Return ==
  /\ pc = "returned"
  /\ pc' = "idle"
  /\ called' = <<"none">>
  /\ result' = NoResult
  /\ Frame

Next ==
  \/ CallGetHealthComponents
  \/ CallGetHealth
  \/ CallGetHealthRatio
  \/ CallComputeValue
  \/ CallGetLeverage
  \/ CallGetLiquidationPrice
  \/ CallIsLiquidatable
  \/ CallGetMarketMarginAvailable
  \/ CallGetAvailableBalance
  \/ CallGetMaxLeverageForMarket
  \/ CallGetMaxWithBorrowForToken
  \/ Return

Spec == Init /\ [][Next]_vars

\* --------------------------------------- a caller holding the components
\* const { spot, perps, quote } = account.getHealthComponents(group, cache)
HoldComponents ==
  /\ pc = "idle"
  /\ ~comp.held
  /\ LET c == getHealthComponents
     IN comp' = [held |-> TRUE, spot |-> c.spot, perps |-> c.perps, quote |-> c.quote]
  /\ ncalls' = 0
  /\ called' = <<"getHealthComponents">>
  /\ UNCHANGED <<pc, result, Snapshot, Codec>>

\* account.getHealthFromComponents(group, cache, spot, perps, quote, healthType)
\* on the held objects: `health` and `quote` are one object, so the held
\* quote holds the returned value afterwards
CallGetHealthFromComponents ==
  \E healthType \in HealthTypes :
    /\ pc = "idle"
    /\ comp.held
    /\ ncalls < MaxCalls
    /\ LET health == getHealthFromComponents(comp.spot, comp.perps, comp.quote, healthType)
       IN /\ result' = Returns(health)
          /\ comp' = [comp EXCEPT !.quote = health]
    /\ pc' = "returned"
    /\ called' = <<"getHealthFromComponents", healthType>>
    /\ ncalls' = ncalls + 1
    /\ UNCHANGED <<Snapshot, Codec>>

\* account.getWeightedAssetsLiabsVals(group, cache, spot, perps, quote, healthType)
\* on the held objects
CallGetWeightedAssetsLiabsVals ==
  \E healthType \in HealthTypes :
    /\ pc = "idle"
    /\ comp.held
    /\ ncalls < MaxCalls
    /\ pc' = "returned"
    /\ called' = <<"getWeightedAssetsLiabsVals", healthType>>
    /\ result' = [kind |-> "pair",
                  v |-> getWeightedAssetsLiabsVals(comp.spot, comp.perps, comp.quote,
                                                   healthType)]
    /\ ncalls' = ncalls + 1
    /\ UNCHANGED <<Snapshot, comp, Codec>>

\* account.getHealthsFromComponents(group, cache, spot, perps, quote, healthType)
\* on the held objects; the held quote is the object both healths are
\* accumulated in. `called` keeps the value quote held when passed.
CallGetHealthsFromComponents ==
  \E healthType \in HealthTypes :
    /\ pc = "idle"
    /\ comp.held
    /\ ncalls < MaxCalls
    /\ LET healths == getHealthsFromComponents(comp.spot, comp.perps, comp.quote, healthType)
       IN /\ result' = [kind |-> "pair", v |-> healths]
          /\ comp' = [comp EXCEPT !.quote = healths.spot]
    /\ pc' = "returned"
    /\ called' = <<"getHealthsFromComponents", healthType, comp.quote>>
    /\ ncalls' = ncalls + 1
    /\ UNCHANGED <<Snapshot, Codec>>

NextComp ==
  \/ HoldComponents
  \/ CallGetHealthFromComponents
  \/ CallGetHealthsFromComponents
  \/ CallGetWeightedAssetsLiabsVals
  \/ CallGetHealthComponents
  \/ CallGetHealth
  \/ Return

SpecComp == Init /\ [][NextComp]_vars

\* ------------------------------------------------------ fixed-point codec
ByteBase == Pow(2, BitsPerByte)

\* BN.notn(width) of a magnitude below 2^width
bnNotn(a, width) == (Pow(2, width) - 1) - a

bnTestn(a, bit) == (a \div Pow(2, bit)) % 2 = 1

bnToTwos(v, width) == IF v < 0 THEN bnNotn(Abs(v), width) + 1 ELSE v

bnFromTwos(a, width) == IF bnTestn(a, width - 1) THEN -(bnNotn(a, width) + 1) ELSE a

RECURSIVE bnByteLength(_)
bnByteLength(a) == IF a = 0 THEN 0 ELSE 1 + bnByteLength(a \div ByteBase)

\* BN.toArray('le', length) / toArrayLike(Buffer, 'le', length): asserts that
\* the number fits, then writes the low byte first and pads with zeros
RECURSIVE bnBytesLE(_, _)
bnBytesLE(a, length) ==
  IF length = 0 THEN <<>> ELSE <<a % ByteBase>> \o bnBytesLE(a \div ByteBase, length - 1)

Bytes(b) == [kind |-> "bytes", v |-> b]

bnToArrayLE(a, length) ==
  IF bnByteLength(a) > length THEN Throws ELSE Bytes(bnBytesLE(a, length))

\* new BN(bytes, 'le')
RECURSIVE bnFromArrayLE(_)
bnFromArrayLE(src) ==
  IF src = <<>> THEN 0 ELSE Head(src) + ByteBase * bnFromArrayLE(Tail(src))

\* new I80F48(data)
newI80F48(data) == IF InRange(data) THEN Returns(data) ELSE Throws

toTwos(v) == bnToTwos(v, MAX_SIZE)

\* faulty variant: the high byte is written first
toArray_bigEndian(v) ==
  LET le == bnToArrayLE(bnToTwos(v, MAX_SIZE), NumBytes)
  IN IF le.kind = "bytes"
     THEN Bytes([k \in 1 .. Len(le.v) |-> le.v[Len(le.v) + 1 - k]])
     ELSE le

toArray(v) == bnToArrayLE(bnToTwos(v, MAX_SIZE), NumBytes)

fromArray(src) ==
  IF Len(src) # NumBytes THEN Throws
  ELSE newI80F48(bnFromTwos(bnFromArrayLE(src), MAX_SIZE))

\* _I80F48Layout is a Blob of `length` = `span` = NumBytes bytes
LayoutSpan == NumBytes

LayoutEncode(src) == bnToArrayLE(toTwos(src), LayoutSpan)

LayoutDecode(b) ==
  newI80F48(bnFromTwos(bnFromArrayLE(SubSeq(b, 1, LayoutSpan)), BitsPerByte * LayoutSpan))

\* the values encoded: every word whose bytes are drawn from ByteSamples,
\* read as a signed number, and the two neighbours of the range that the
\* unchecked in-place operations can produce
ByteSamples == {0, 1, ByteBase \div 2 - 1, ByteBase \div 2, ByteBase - 1}

RECURSIVE WordOf(_, _)
WordOf(b, n) == IF n = 0 THEN 0 ELSE WordOf(b, n - 1) + b[n] * Pow(ByteBase, n - 1)

CodecInputs ==
  { WordOf(b, NumBytes) - (IF b[NumBytes] >= ByteBase \div 2 THEN Pow(ByteBase, NumBytes) ELSE 0) :
      b \in [1 .. NumBytes -> ByteSamples] }
  \cup {MAX_BN + 1, MIN_BN - 1}

InitCodec ==
  /\ LET prof == [i \in Markets |->
                    Profile(0, 0, NoOpenOrders, FALSE, FALSE, NoPerpAccount, Units(3))]
     IN /\ group = MkGroup(prof)
        /\ cache = MkCache(prof)
        /\ account = MkAccount(prof, <<0, 0>>, FALSE)
  /\ pc = "idle"
  /\ called = <<"none">>
  /\ result = NoResult
  /\ comp = NoComponents
  /\ ncalls = 0
  /\ x \in CodecInputs
  /\ buf = NoResult
  /\ y = NoResult

Encode(name, bytes) ==
  /\ pc = "idle"
  /\ pc' = "encoded"
  /\ called' = <<name>>
  /\ buf' = bytes
  /\ UNCHANGED <<Snapshot, result, comp, ncalls, x, y>>

Decode(name, value) ==
  /\ pc = "encoded"
  /\ buf.kind = "bytes"
  /\ pc' = "decoded"
  /\ called' = <<called[1], name>>
  /\ y' = value
  /\ UNCHANGED <<Snapshot, result, comp, ncalls, x, buf>>

EncodeToArray == Encode("toArray", toArray(x))

EncodeLayout == Encode("I80F48Layout.encode", LayoutEncode(x))

DecodeFromArray == Decode("fromArray", fromArray(buf.v))

DecodeLayout == Decode("I80F48Layout.decode", LayoutDecode(buf.v))

NextCodec ==
  \/ EncodeToArray
  \/ EncodeLayout
  \/ DecodeFromArray
  \/ DecodeLayout

SpecCodec == InitCodec /\ [][NextCodec]_vars


\* --------------------------------------------------- fixed-point calls
\* The object `this` of the calls is x.  A call is followed while x.data is
\* in range; an in-place call may carry it out of range, and at most
\* MaxCalls in-place calls are made on one object.
FixedInputs ==
  { 0, 1, -1, MULTIPLIER_BN \div 2, -(MULTIPLIER_BN \div 2), MULTIPLIER_BN - 1,
    ONE_I80F48, NEG_ONE_I80F48, ONE_I80F48 + 1, -(ONE_I80F48 + 1),
    Frac(3, 2), -Frac(3, 2), Units(2) + 3, -(Units(2) + 3), Units(5), -Units(5),
    MAX_BN \div 2, -(MAX_BN \div 2), MAX_BN - 1, MAX_BN, MIN_BN + 1, MIN_BN }

DataInputs ==
  { 2 * MIN_BN, MIN_BN - 1, MIN_BN, MIN_BN + 1, -1, 0, 1,
    MAX_BN - 1, MAX_BN, MAX_BN + 1, 2 * MAX_BN }

AddOperands == { 1, -1, ONE_I80F48, MAX_BN, MIN_BN }

MulOperands ==
  { 0, 1, -1, ONE_I80F48 \div 2, -(ONE_I80F48 \div 2), ONE_I80F48, NEG_ONE_I80F48,
    Frac(3, 2) + 1, -(Frac(3, 2) + 1), Units(3) }

DivOperands ==
  { 0, 1, -1, ONE_I80F48 \div 2, ONE_I80F48, -Frac(3, 2), Units(3), -Units(3) }

InitFixed ==
  /\ LET prof == [i \in Markets |->
                    Profile(0, 0, NoOpenOrders, FALSE, FALSE, NoPerpAccount, Units(3))]
     IN /\ group = MkGroup(prof)
        /\ cache = MkCache(prof)
        /\ account = MkAccount(prof, <<0, 0>>, FALSE)
  /\ pc = "idle"
  /\ called = <<"none">>
  /\ result = NoResult
  /\ comp = NoComponents
  /\ ncalls = 0
  /\ x \in FixedInputs
  /\ buf = NoResult
  /\ y = NoResult

\* BN.div asserts a non-zero divisor
bnDivCall(a, b) == IF b = 0 THEN Throws ELSE Returns(bnDiv(a, b))

\* a call that builds a new object: the value goes through the constructor
PureCall(name, value) ==
  /\ pc = "idle"
  /\ InRange(x)
  /\ pc' = "returned"
  /\ called' = name
  /\ result' = value
  /\ UNCHANGED <<Snapshot, comp, ncalls, Codec>>

\* a call that changes this.data and returns this: no constructor runs
InPlaceCall(name, data, value) ==
  /\ pc = "idle"
  /\ InRange(x)
  /\ ncalls < MaxCalls
  /\ pc' = "returned"
  /\ called' = name
  /\ x' = data
  /\ result' = value
  /\ ncalls' = ncalls + 1
  /\ UNCHANGED <<Snapshot, comp, buf, y>>

CallConstruct == \E data \in DataInputs : PureCall(<<"new I80F48", data>>, newI80F48(data))

CallAdd == \E b \in AddOperands : PureCall(<<"add", x, b>>, newI80F48(add(x, b)))

CallSub == \E b \in AddOperands : PureCall(<<"sub", x, b>>, newI80F48(sub(x, b)))

CallMul == \E b \in MulOperands : PureCall(<<"mul", x, b>>, newI80F48(mul(x, b)))

\* faulty variant: a zero divisor gives zero
divCall_zeroOnZero(a, b) ==
  IF b = 0 THEN Returns(ZERO_I80F48) ELSE newI80F48(div(a, b))

\* this.data.ushln(FRACTIONS).div(x.data), then the constructor
divCall(a, b) ==
  LET q == bnDivCall(bnUshln(a, FRACTIONS), b)
  IN IF q.kind = "throws" THEN Throws ELSE newI80F48(q.v)

CallDiv == \E b \in DivOperands : PureCall(<<"div", x, b>>, divCall(x, b))

CallFloor == PureCall(<<"floor", x>>, newI80F48(floor(x)))

CallCeil == PureCall(<<"ceil", x>>, newI80F48(ceil(x)))

CallIadd ==
  \E b \in {3, MAX_BN} : InPlaceCall(<<"iadd", x, b>>, iadd(x, b), Returns(iadd(x, b)))

CallIsub ==
  \E b \in {ONE_I80F48, MAX_BN} : InPlaceCall(<<"isub", x, b>>, isub(x, b), Returns(isub(x, b)))

CallImul ==
  \E b \in {-(Frac(3, 2) + 1), Units(3)} :
    InPlaceCall(<<"imul", x, b>>, imul(x, b), Returns(imul(x, b)))

\* this.data = this.data.iushln(FRACTIONS).div(x.data): the shift is done on
\* this.data itself before div runs, so a failing div leaves it shifted
CallIdiv ==
  \E b \in {0, -3, Units(3)} :
    LET shifted == bnUshln(x, FRACTIONS)
        q == bnDivCall(shifted, b)
    IN IF q.kind = "throws"
       THEN InPlaceCall(<<"idiv", x, b>>, shifted, Throws)
       ELSE InPlaceCall(<<"idiv", x, b>>, q.v, Returns(q.v))

NextFixed ==
  \/ CallConstruct
  \/ CallAdd
  \/ CallSub
  \/ CallMul
  \/ CallDiv
  \/ CallFloor
  \/ CallCeil
  \/ CallIadd
  \/ CallIsub
  \/ CallImul
  \/ CallIdiv
  \/ Return

SpecFixed == InitFixed /\ [][NextFixed]_vars

\* ---------------------------------------------------------------- layouts
\* The struct and union layouts of layout.ts with their real byte spans.
\* A decoded struct is the tuple of its fields' values in declaration
\* order; a BN or an I80F48 is its integer value, a PublicKey its 32 bytes,
\* a decoded instruction the variant's property with the struct under it.

MaxCut == 5
NumPatterns == 3
INFO_LEN == 32

Zeros(n) == [i \in 1 .. n |-> 0]

UInt(span, property) ==
  [type |-> "UInt", span |-> span, property |-> property,
   signed |-> FALSE, values |-> <<>>, fields |-> <<>>]

BNLayout(number, property, signed) ==
  [type |-> "BNLayout", span |-> number, property |-> property,
   signed |-> signed, values |-> <<>>, fields |-> <<>>]

I80F48Layout(property) ==
  [type |-> "I80F48Layout", span |-> 16, property |-> property,
   signed |-> TRUE, values |-> <<>>, fields |-> <<>>]

\* WrappedLayout(u8(), decodeBool, encodeBool)
bool(property) ==
  [type |-> "bool", span |-> 1, property |-> property,
   signed |-> FALSE, values |-> <<>>, fields |-> <<>>]

\* values[k] is the name whose number is k - 1
EnumLayout(values, span, property) ==
  [type |-> "EnumLayout", span |-> span, property |-> property,
   signed |-> FALSE, values |-> values, fields |-> <<>>]

PublicKeyLayout(property) ==
  [type |-> "PublicKeyLayout", span |-> 32, property |-> property,
   signed |-> FALSE, values |-> <<>>, fields |-> <<>>]

RECURSIVE spanOf(_)
spanOf(fields) == IF fields = <<>> THEN 0 ELSE Head(fields).span + spanOf(Tail(fields))

struct(fields, property) ==
  [type |-> "Structure", span |-> spanOf(fields), property |-> property,
   signed |-> FALSE, values |-> <<>>, fields |-> fields]

seq(elementLayout, count, property) ==
  [type |-> "Sequence", span |-> count * elementLayout.span, property |-> property,
   signed |-> FALSE, values |-> <<>>, fields |-> [i \in 1 .. count |-> elementLayout]]

MetaDataLayout(property) ==
  [struct(<<UInt(1, "dataType"), UInt(1, "version"), UInt(1, "isInitialized"),
            seq(UInt(1, ""), 5, "extraInfo")>>, property)
   EXCEPT !.type = "MetaDataLayout"]

NodeBankLayout ==
  struct(<<MetaDataLayout("metaData"), I80F48Layout("deposits"),
           I80F48Layout("borrows"), PublicKeyLayout("vault")>>, "")

\* Blob.decode: b.slice(offset, offset + span), which is shorter than span
\* when the buffer ends early
Blob_decode(b, offset, span) ==
  IF offset >= Len(b) THEN <<>>
  ELSE SubSeq(b, offset + 1, IF offset + span < Len(b) THEN offset + span ELSE Len(b))

\* UInt.decode: b.readUIntLE(offset, span), a RangeError past the end
UInt_decode(b, offset, span) ==
  IF offset + span > Len(b) THEN Throws
  ELSE Returns(bnFromArrayLE(Blob_decode(b, offset, span)))

\* BN.notn(8 * length).iaddn(1) on the little-endian bytes of the magnitude
RECURSIVE bnNegateLE(_, _)
bnNegateLE(bytes, carry) ==
  IF bytes = <<>> THEN <<>>
  ELSE LET d == (ByteBase - 1 - Head(bytes)) + carry
       IN <<d % ByteBase>> \o bnNegateLE(Tail(bytes), d \div ByteBase)

\* new BN(super.decode(b, offset), 10, 'le') and fromTwos(8 * length): the
\* sign bit is set only in a slice of full length whose last byte has it.
\* A magnitude of 2^31 or more is kept as its bytes.
BNLayout_decode(layout, b, offset) ==
  LET data == Blob_decode(b, offset, layout.span)
      wide(bytes) == \E i \in 4 .. Len(bytes) :
                       bytes[i] >= (IF i = 4 THEN ByteBase \div 2 ELSE 1)
  IN IF layout.signed /\ Len(data) = layout.span /\ data[layout.span] >= ByteBase \div 2
     THEN LET m == bnNegateLE(data, 1)
          IN IF wide(m) THEN [negative |-> m] ELSE -bnFromArrayLE(m)
     ELSE IF wide(data) THEN [positive |-> data] ELSE bnFromArrayLE(data)

RECURSIVE Layout_decode(_, _, _)
RECURSIVE Structure_decode(_, _, _, _)

\* Layout.decode(b, offset) of each layout class; new I80F48(result) cannot
\* fail here, sixteen bytes read as a signed number are always in range
Layout_decode(layout, b, offset) ==
  CASE layout.type = "UInt" -> UInt_decode(b, offset, layout.span)
    [] layout.type \in {"BNLayout", "I80F48Layout"} ->
         Returns(BNLayout_decode(layout, b, offset))
    [] layout.type = "bool" ->
         LET u == UInt_decode(b, offset, layout.span)
         IN IF u.kind = "throws" THEN Throws ELSE Returns(u.v # 0)
    [] layout.type = "EnumLayout" ->
         LET u == UInt_decode(b, offset, layout.span)
         IN IF u.kind = "throws" THEN Throws
            ELSE IF u.v + 1 \in DOMAIN layout.values
                 THEN Returns(layout.values[u.v + 1])
                 ELSE Throws
    [] layout.type = "PublicKeyLayout" ->
         LET data == Blob_decode(b, offset, layout.span)
         IN Returns(Zeros(layout.span - Len(data)) \o data)
    [] OTHER -> Structure_decode(layout.fields, b, offset, 1)

\* Structure.decode and Sequence.decode: each field in turn, the offset
\* advanced by the field's span, with no check of the buffer's length
Structure_decode(fields, b, offset, i) ==
  IF i > Len(fields) THEN Returns(<<>>)
  ELSE LET d == Layout_decode(fields[i], b, offset)
       IN IF d.kind = "throws" THEN Throws
          ELSE LET rest == Structure_decode(fields, b, offset + fields[i].span, i + 1)
               IN IF rest.kind = "throws" THEN Throws ELSE Returns(<<d.v>> \o rest.v)

RECURSIVE Layout_encode(_, _)
RECURSIVE Structure_encode(_, _, _, _, _)

\* Layout.encode(src, b, offset) of each layout class, as the bytes written.
\* MetaDataLayout.encode calls src.toBuffer(), which MetaData does not have.
Layout_encode(layout, src) ==
  CASE layout.type = "UInt" ->
         IF src < 0 THEN Throws ELSE bnToArrayLE(src, layout.span)
    [] layout.type \in {"BNLayout", "I80F48Layout"} ->
         IF layout.signed /\ src < 0
         THEN LET m == bnToArrayLE(-src, layout.span)
              IN IF m.kind = "throws" THEN Throws ELSE Bytes(bnNegateLE(m.v, 1))
         ELSE bnToArrayLE(Abs(src), layout.span)
    [] layout.type = "bool" -> Bytes(<<IF src THEN 1 ELSE 0>>)
    [] layout.type = "EnumLayout" ->
         IF \E k \in DOMAIN layout.values : layout.values[k] = src
         THEN bnToArrayLE((CHOOSE k \in DOMAIN layout.values : layout.values[k] = src) - 1,
                          layout.span)
         ELSE Throws
    [] layout.type = "PublicKeyLayout" ->
         IF Len(src) = layout.span THEN Bytes(src) ELSE Throws
    [] layout.type = "MetaDataLayout" -> Throws
    [] OTHER -> Structure_encode(layout.fields, src, Zeros(layout.span), 0, 1)

\* Structure.encode and Sequence.encode: each field written at its offset; a
\* write past the end of the buffer is a RangeError
Structure_encode(fields, src, b, offset, i) ==
  IF i > Len(fields) THEN Bytes(b)
  ELSE LET e == Layout_encode(fields[i], src[i])
       IN IF e.kind = "throws" \/ offset + fields[i].span > Len(b) THEN Throws
          ELSE Structure_encode(
                 fields, src,
                 [k \in 1 .. Len(b) |->
                    IF k > offset /\ k <= offset + Len(e.v) THEN e.v[k - offset] ELSE b[k]],
                 offset + fields[i].span, i + 1)

\* LyraeInstructionLayout = new LyraeInstructionsUnion(u32('instruction'))
discriminator == UInt(4, "instruction")

addVariant(variant, layout, property) ==
  [variant |-> variant, layout |-> layout, property |-> property]

registry ==
  <<
    addVariant(0, struct(<<
        BNLayout(8, "signerNonce", FALSE),
        BNLayout(8, "validInterval", FALSE),
        I80F48Layout("quoteOptimalUtil"),
        I80F48Layout("quoteOptimalRate"),
        I80F48Layout("quoteMaxRate") >>, ""), "InitLyraeGroup"),
    addVariant(1, struct(<<>>, ""), "InitLyraeAccount"),
    addVariant(2, struct(<<
        BNLayout(8, "quantity", FALSE) >>, ""), "Deposit"),
    addVariant(3, struct(<<
        BNLayout(8, "quantity", FALSE),
        UInt(1, "allowBorrow") >>, ""), "Withdraw"),
    addVariant(4, struct(<<
        I80F48Layout("maintLeverage"),
        I80F48Layout("initLeverage"),
        I80F48Layout("liquidationFee"),
        I80F48Layout("optimalUtil"),
        I80F48Layout("optimalRate"),
        I80F48Layout("maxRate") >>, ""), "AddSpotMarket"),
    addVariant(5, struct(<<
        BNLayout(8, "marketIndex", FALSE) >>, ""), "AddToBasket"),
    addVariant(6, struct(<<
        BNLayout(8, "quantity", FALSE) >>, ""), "Borrow"),
    addVariant(7, struct(<<>>, ""), "CachePrices"),
    addVariant(8, struct(<<>>, ""), "CacheRootBanks"),
    addVariant(9, struct(<<
        EnumLayout(<<"buy", "sell">>, 4, "side"),
        BNLayout(8, "limitPrice", FALSE),
        BNLayout(8, "maxBaseQuantity", FALSE),
        BNLayout(8, "maxQuoteQuantity", FALSE),
        EnumLayout(<<"decrementTake", "cancelProvide", "abortTransaction">>, 4, "selfTradeBehavior"),
        EnumLayout(<<"limit", "ioc", "postOnly", "market", "postOnlySlide">>, 4, "orderType"),
        BNLayout(8, "clientId", FALSE),
        UInt(2, "limit") >>, ""), "PlaceSpotOrder"),
    addVariant(10, struct(<<>>, ""), "AddOracle"),
    addVariant(11, struct(<<
        I80F48Layout("maintLeverage"),
        I80F48Layout("initLeverage"),
        I80F48Layout("liquidationFee"),
        I80F48Layout("makerFee"),
        I80F48Layout("takerFee"),
        BNLayout(8, "baseLotSize", TRUE),
        BNLayout(8, "quoteLotSize", TRUE),
        I80F48Layout("rate"),
        I80F48Layout("maxDepthBps"),
        BNLayout(8, "targetPeriodLength", FALSE),
        BNLayout(8, "lyrPerPeriod", FALSE),
        UInt(1, "exp") >>, ""), "AddPerpMarket"),
    addVariant(12, struct(<<
        BNLayout(8, "price", TRUE),
        BNLayout(8, "quantity", TRUE),
        BNLayout(8, "clientOrderId", FALSE),
        EnumLayout(<<"buy", "sell">>, 1, "side"),
        EnumLayout(<<"limit", "ioc", "postOnly", "market", "postOnlySlide">>, 1, "orderType"),
        bool("reduceOnly") >>, ""), "PlacePerpOrder"),
    addVariant(13, struct(<<
        BNLayout(8, "clientOrderId", FALSE),
        bool("invalidIdOk") >>, ""), "CancelPerpOrderByClientId"),
    addVariant(14, struct(<<
        BNLayout(16, "orderId", TRUE),
        bool("invalidIdOk") >>, ""), "CancelPerpOrder"),
    addVariant(15, struct(<<
        BNLayout(8, "limit", FALSE) >>, ""), "ConsumeEvents"),
    addVariant(16, struct(<<>>, ""), "CachePerpMarkets"),
    addVariant(17, struct(<<>>, ""), "UpdateFunding"),
    addVariant(18, struct(<<
        I80F48Layout("price") >>, ""), "SetOracle"),
    addVariant(19, struct(<<>>, ""), "SettleFunds"),
    addVariant(20, struct(<<
        EnumLayout(<<"buy", "sell">>, 4, "side"),
        BNLayout(16, "orderId", FALSE) >>, ""), "CancelSpotOrder"),
    addVariant(21, struct(<<>>, ""), "UpdateRootBank"),
    addVariant(22, struct(<<
        BNLayout(8, "marketIndex", FALSE) >>, ""), "SettlePnl"),
    addVariant(23, struct(<<
        BNLayout(8, "tokenIndex", FALSE),
        BNLayout(8, "quantity", FALSE) >>, ""), "SettleBorrow"),
    addVariant(24, struct(<<
        UInt(1, "limit") >>, ""), "ForceCancelSpotOrders"),
    addVariant(25, struct(<<
        UInt(1, "limit") >>, ""), "ForceCancelPerpOrders"),
    addVariant(26, struct(<<
        I80F48Layout("maxLiabTransfer") >>, ""), "LiquidateTokenAndToken"),
    addVariant(27, struct(<<
        UInt(1, "assetType"),
        BNLayout(8, "assetIndex", FALSE),
        UInt(1, "liabType"),
        BNLayout(8, "liabIndex", FALSE),
        I80F48Layout("maxLiabTransfer") >>, ""), "LiquidateTokenAndPerp"),
    addVariant(28, struct(<<
        BNLayout(8, "baseTransferRequest", TRUE) >>, ""), "LiquidatePerpMarket"),
    addVariant(29, struct(<<>>, ""), "SettleFees"),
    addVariant(30, struct(<<
        BNLayout(8, "liabIndex", FALSE),
        I80F48Layout("maxLiabTransfer") >>, ""), "ResolvePerpBankruptcy"),
    addVariant(31, struct(<<
        I80F48Layout("maxLiabTransfer") >>, ""), "ResolveTokenBankruptcy"),
    addVariant(32, struct(<<>>, ""), "InitSpotOpenOrders"),
    addVariant(33, struct(<<>>, ""), "RedeemLyr"),
    addVariant(34, struct(<<
        seq(UInt(1, ""), INFO_LEN, "info") >>, ""), "AddLyraeAccountInfo"),
    addVariant(35, struct(<<
        BNLayout(8, "quantity", FALSE) >>, ""), "DepositMsrm"),
    addVariant(36, struct(<<
        BNLayout(8, "quantity", FALSE) >>, ""), "WithdrawMsrm"),
    addVariant(37, struct(<<
        bool("maintLeverageOption"),
        I80F48Layout("maintLeverage"),
        bool("initLeverageOption"),
        I80F48Layout("initLeverage"),
        bool("liquidationFeeOption"),
        I80F48Layout("liquidationFee"),
        bool("makerFeeOption"),
        I80F48Layout("makerFee"),
        bool("takerFeeOption"),
        I80F48Layout("takerFee"),
        bool("rateOption"),
        I80F48Layout("rate"),
        bool("maxDepthBpsOption"),
        I80F48Layout("maxDepthBps"),
        bool("targetPeriodLengthOption"),
        BNLayout(8, "targetPeriodLength", FALSE),
        bool("lyrPerPeriodOption"),
        BNLayout(8, "lyrPerPeriod", FALSE),
        bool("expOption"),
        UInt(1, "exp") >>, ""), "ChangePerpMarketParams"),
    addVariant(38, struct(<<>>, ""), "SetGroupAdmin"),
    addVariant(39, struct(<<
        UInt(1, "limit") >>, ""), "CancelAllPerpOrders"),
    addVariant(41, struct(<<
        EnumLayout(<<"buy", "sell">>, 4, "side"),
        BNLayout(8, "limitPrice", FALSE),
        BNLayout(8, "maxBaseQuantity", FALSE),
        BNLayout(8, "maxQuoteQuantity", FALSE),
        EnumLayout(<<"decrementTake", "cancelProvide", "abortTransaction">>, 4, "selfTradeBehavior"),
        EnumLayout(<<"limit", "ioc", "postOnly", "market", "postOnlySlide">>, 4, "orderType"),
        BNLayout(8, "clientOrderId", FALSE),
        UInt(2, "limit") >>, ""), "PlaceSpotOrder2"),
    addVariant(42, struct(<<>>, ""), "InitAdvancedOrders"),
    addVariant(43, struct(<<
        EnumLayout(<<"limit", "ioc", "postOnly", "market", "postOnlySlide">>, 1, "orderType"),
        EnumLayout(<<"buy", "sell">>, 1, "side"),
        EnumLayout(<<"above", "below">>, 1, "triggerCondition"),
        bool("reduceOnly"),
        BNLayout(8, "clientOrderId", FALSE),
        BNLayout(8, "price", TRUE),
        BNLayout(8, "quantity", TRUE),
        I80F48Layout("triggerPrice") >>, ""), "AddPerpTriggerOrder"),
    addVariant(44, struct(<<
        UInt(1, "orderIndex") >>, ""), "RemoveAdvancedOrder"),
    addVariant(45, struct(<<
        UInt(1, "orderIndex") >>, ""), "ExecutePerpTriggerOrder"),
    addVariant(46, struct(<<
        I80F48Layout("maintLeverage"),
        I80F48Layout("initLeverage"),
        I80F48Layout("liquidationFee"),
        I80F48Layout("makerFee"),
        I80F48Layout("takerFee"),
        BNLayout(8, "baseLotSize", TRUE),
        BNLayout(8, "quoteLotSize", TRUE),
        I80F48Layout("rate"),
        I80F48Layout("maxDepthBps"),
        BNLayout(8, "targetPeriodLength", FALSE),
        BNLayout(8, "lyrPerPeriod", FALSE),
        UInt(1, "exp"),
        UInt(1, "version"),
        UInt(1, "lmSizeShift"),
        UInt(1, "baseDecimals") >>, ""), "CreatePerpMarket"),
    addVariant(47, struct(<<
        bool("maintLeverageOption"),
        I80F48Layout("maintLeverage"),
        bool("initLeverageOption"),
        I80F48Layout("initLeverage"),
        bool("liquidationFeeOption"),
        I80F48Layout("liquidationFee"),
        bool("makerFeeOption"),
        I80F48Layout("makerFee"),
        bool("takerFeeOption"),
        I80F48Layout("takerFee"),
        bool("rateOption"),
        I80F48Layout("rate"),
        bool("maxDepthBpsOption"),
        I80F48Layout("maxDepthBps"),
        bool("targetPeriodLengthOption"),
        BNLayout(8, "targetPeriodLength", FALSE),
        bool("lyrPerPeriodOption"),
        BNLayout(8, "lyrPerPeriod", FALSE),
        bool("expOption"),
        UInt(1, "exp"),
        bool("versionOption"),
        UInt(1, "version"),
        bool("lmSizeShiftOption"),
        UInt(1, "lmSizeShift") >>, ""), "ChangePerpMarketParams2"),
    addVariant(48, struct(<<>>, ""), "UpdateMarginBasket"),
    addVariant(49, struct(<<
        UInt(4, "maxLyraeAccounts") >>, ""), "ChangeMaxLyraeAccounts"),
    addVariant(50, struct(<<>>, ""), "CloseLyraeAccount"),
    addVariant(51, struct(<<>>, ""), "CloseSpotOpenOrders"),
    addVariant(52, struct(<<>>, ""), "CloseAdvancedOrders"),
    addVariant(53, struct(<<>>, ""), "CreateDustAccount"),
    addVariant(54, struct(<<>>, ""), "ResolveDust"),
    addVariant(55, struct(<<
        BNLayout(8, "accountNum", FALSE) >>, ""), "CreateAccount"),
    addVariant(56, struct(<<>>, ""), "UpgradeLyraeAccountV0V1"),
    addVariant(57, struct(<<
        EnumLayout(<<"buy", "sell">>, 1, "side"),
        UInt(1, "limit") >>, ""), "CancelPerpOrdersSide"),
    addVariant(58, struct(<<>>, ""), "SetDelegate"),
    addVariant(59, struct(<<
        bool("maintLeverageOption"),
        I80F48Layout("maintLeverage"),
        bool("initLeverageOption"),
        I80F48Layout("initLeverage"),
        bool("liquidationFeeOption"),
        I80F48Layout("liquidationFee"),
        bool("optimalUtilOption"),
        I80F48Layout("optimalUtil"),
        bool("optimalRateOption"),
        I80F48Layout("optimalRate"),
        bool("maxRateOption"),
        I80F48Layout("maxRate"),
        bool("versionOption"),
        UInt(1, "version") >>, ""), "ChangeSpotMarketParams"),
    addVariant(60, struct(<<>>, ""), "CreateSpotOpenOrders")
  >>

\* Union.getVariant: the index of the registered variant, 0 when there is none
getVariant(discr) ==
  IF \E i \in DOMAIN registry : registry[i].variant = discr
  THEN CHOOSE i \in DOMAIN registry : registry[i].variant = discr
  ELSE 0

\* Union.decode without a default layout: an unregistered discriminant is a
\* TypeError; VariantLayout.decode puts the struct under the variant's property
Union_decode(b) ==
  LET discr == Layout_decode(discriminator, b, 0)
  IN IF discr.kind = "throws" THEN Throws
     ELSE IF getVariant(discr.v) = 0 THEN Throws
     ELSE LET vlo == registry[getVariant(discr.v)]
              s == Layout_decode(vlo.layout, b, discriminator.span)
          IN IF s.kind = "throws" THEN Throws
             ELSE Returns([property |-> vlo.property, fields |-> s.v])

LyraeInstructionsUnion_decode(b) ==
  LET discr == Layout_decode(discriminator, b, 0)
  IN IF discr.kind = "throws" THEN Throws
     ELSE IF (discr.v = 11 /\ Len(b) = 144) \/ (discr.v = 12 /\ Len(b) = 30)
          THEN Union_decode(b \o <<0>>)
     ELSE IF discr.v = 37 /\ Len(b) = 141
          THEN Union_decode(b \o <<0, 0>>)
     ELSE Union_decode(b)

\* Union.defaultGetSourceVariant: the first registered variant whose property
\* the source object has, 0 when there is none
getSourceVariant(src) ==
  IF \E i \in DOMAIN registry : registry[i].property = src.property
  THEN CHOOSE i \in DOMAIN registry :
         /\ registry[i].property = src.property
         /\ \A j \in 1 .. i - 1 : registry[j].property # src.property
  ELSE 0

\* Union.encode / VariantLayout.encode: the discriminator, then the struct
Union_encode(src, b) ==
  IF getSourceVariant(src) = 0 THEN Throws
  ELSE LET vlo == registry[getSourceVariant(src)]
       IN Structure_encode(<<discriminator, vlo.layout>>, <<vlo.variant, src.fields>>, b, 0, 1)

variantSpan(i) == discriminator.span + registry[i].layout.span

instructionMaxSpan ==
  CHOOSE m \in {variantSpan(i) : i \in DOMAIN registry} :
    \A i \in DOMAIN registry : variantSpan(i) <= m

encodeLyraeInstruction(data) ==
  LET b == Union_encode(data, Zeros(instructionMaxSpan))
  IN IF b.kind = "throws" THEN Throws
     ELSE Bytes(SubSeq(b.v, 1, variantSpan(getSourceVariant(data))))

\* the values encoded: for every variant, NumPatterns values whose fields run
\* through zero, one, the largest and a negative or middle value of the low
\* three bytes of each number, both booleans and every name of an enum
RECURSIVE SampleValue(_, _)
SampleValue(layout, k) ==
  LET top == Pow(ByteBase, IF layout.span < 3 THEN layout.span ELSE 3) - 1
  IN CASE layout.type \in {"UInt", "BNLayout", "I80F48Layout"} ->
            IF layout.signed
            THEN <<0, -1, top, -(top + 1)>>[(k % 4) + 1]
            ELSE <<0, 1, top, top \div 2 + 3>>[(k % 4) + 1]
       [] layout.type = "bool" -> k % 2 = 1
       [] layout.type = "EnumLayout" -> layout.values[(k % Len(layout.values)) + 1]
       [] layout.type = "PublicKeyLayout" ->
            [i \in 1 .. layout.span |-> (i * k) % ByteBase]
       [] OTHER -> [j \in 1 .. Len(layout.fields) |-> SampleValue(layout.fields[j], k + j)]

InstructionValue(i, k) ==
  [property |-> registry[i].property, fields |-> SampleValue(registry[i].layout, k)]

\* the data of a node bank account as the program writes it
NodeBankData(k) ==
  Structure_encode(<<struct(MetaDataLayout("metaData").fields, "metaData")>>
                      \o Tail(NodeBankLayout.fields),
                   SampleValue(NodeBankLayout, k), Zeros(NodeBankLayout.span), 0, 1).v

InitLayout ==
  /\ LET prof == [i \in Markets |->
                    Profile(0, 0, NoOpenOrders, FALSE, FALSE, NoPerpAccount, Units(3))]
     IN /\ group = MkGroup(prof)
        /\ cache = MkCache(prof)
        /\ account = MkAccount(prof, <<0, 0>>, FALSE)
  /\ called = <<"none">>
  /\ result = NoResult
  /\ comp = NoComponents
  /\ ncalls = 0
  /\ y = NoResult
  /\ \/ /\ pc = "idle"
        /\ \E i \in DOMAIN registry, k \in 1 .. NumPatterns : x = InstructionValue(i, k)
        /\ buf = NoResult
     \/ /\ pc = "fetched"
        /\ x = NoResult
        /\ \E k \in 1 .. NumPatterns : buf = Bytes(NodeBankData(k))

CallEncodeLyraeInstruction ==
  /\ pc = "idle"
  /\ pc' = "encoded"
  /\ called' = <<"encodeLyraeInstruction">>
  /\ buf' = encodeLyraeInstruction(x)
  /\ UNCHANGED <<Snapshot, result, comp, ncalls, x, y>>

\* the data arrives cut short, by up to MaxCut bytes
Truncate ==
  /\ \/ pc = "encoded" /\ buf.kind = "bytes" /\ Len(buf.v) = variantSpan(getSourceVariant(x))
     \/ pc = "fetched" /\ Len(buf.v) = NodeBankLayout.span
  /\ \E cut \in 1 .. MaxCut :
       /\ cut <= Len(buf.v)
       /\ buf' = Bytes(SubSeq(buf.v, 1, Len(buf.v) - cut))
  /\ UNCHANGED <<Snapshot, pc, called, result, comp, ncalls, x, y>>

CallDecodeInstruction ==
  /\ pc = "encoded"
  /\ buf.kind = "bytes"
  /\ pc' = "decoded"
  /\ called' = <<"LyraeInstructionLayout.decode">>
  /\ y' = LyraeInstructionsUnion_decode(buf.v)
  /\ UNCHANGED <<Snapshot, result, comp, ncalls, x, buf>>

CallDecodeNodeBank ==
  /\ pc = "fetched"
  /\ pc' = "decoded"
  /\ called' = <<"NodeBankLayout.decode">>
  /\ y' = Layout_decode(NodeBankLayout, buf.v, 0)
  /\ UNCHANGED <<Snapshot, result, comp, ncalls, x, buf>>

CallEncodeNodeBank ==
  /\ pc = "decoded"
  /\ called = <<"NodeBankLayout.decode">>
  /\ y.kind = "value"
  /\ pc' = "encodedAgain"
  /\ called' = <<"NodeBankLayout.encode">>
  /\ result' = Layout_encode(NodeBankLayout, y.v)
  /\ UNCHANGED <<Snapshot, comp, ncalls, x, buf, y>>

NextLayout ==
  \/ CallEncodeLyraeInstruction
  \/ Truncate
  \/ CallDecodeInstruction
  \/ CallDecodeNodeBank
  \/ CallEncodeNodeBank

SpecLayout == InitLayout /\ [][NextLayout]_vars

\* ---------------------------------------------------------------- index lookups
\* A public key is a number, zeroKey the key of an unused slot. The group
\* account keeps MAX_PAIRS market slots and MAX_TOKENS token slots; market i
\* takes the slot of oracle i, and the quote token the last token slot.

zeroKey == 0

KeyOf(i) == i + 1

LookupKeys == 0 .. NumOracles + 2 \cup {KeyOf(MAX_TOKENS)}

\* LyraeGroupLayout.decode of a group with n oracles, of which the markets
\* flagged in spot and perp are listed
DecodedGroup(n, spot, perp) ==
  [numOracles |-> n,
   oracles |-> [i \in 1 .. MAX_PAIRS |-> IF i <= n THEN KeyOf(i) ELSE zeroKey],
   spotMarkets |-> [i \in 1 .. MAX_PAIRS |->
                      [spotMarket |-> IF i <= n /\ spot[i] THEN KeyOf(i) ELSE zeroKey]],
   perpMarkets |-> [i \in 1 .. MAX_PAIRS |->
                      [perpMarket |-> IF i <= n /\ perp[i] THEN KeyOf(i) ELSE zeroKey]],
   tokens |-> [i \in 1 .. MAX_TOKENS |->
                 IF (i <= n /\ spot[i]) \/ i = QUOTE_INDEX + 1
                 THEN [mint |-> KeyOf(i), rootBank |-> KeyOf(i)]
                 ELSE [mint |-> zeroKey, rootBank |-> zeroKey]]]

\* new LyraeGroup(publicKey, decoded)
LyraeGroup_constructor(decoded) ==
  [decoded EXCEPT !.oracles = SelectSeq(decoded.oracles, LAMBDA o : o # zeroKey)]

NotFound == [kind |-> "throws", error |-> "NotFound"]

TypeError == [kind |-> "throws", error |-> "TypeError"]

\* for (let i = 0; i < count; i++) if (entries[i].equals(key)) return i;
\* throw new Error(...): reading past the end of entries gives undefined,
\* and undefined.equals is a TypeError
RECURSIVE lookup(_, _, _, _)
lookup(entries, count, key, i) ==
  IF i >= count THEN NotFound
  ELSE IF i + 1 > Len(entries) THEN TypeError
  ELSE IF entries[i + 1] = key THEN Returns(i)
  ELSE lookup(entries, count, key, i + 1)

getOracleIndex(oracle) == lookup(group.oracles, group.numOracles, oracle, 0)

getSpotMarketIndex(spotMarketPk) ==
  lookup([i \in DOMAIN group.spotMarkets |-> group.spotMarkets[i].spotMarket],
         group.numOracles, spotMarketPk, 0)

getPerpMarketIndex(perpMarketPk) ==
  lookup([i \in DOMAIN group.perpMarkets |-> group.perpMarkets[i].perpMarket],
         group.numOracles, perpMarketPk, 0)

\* faulty variant: only the market slots are searched
getTokenIndex_marketSlotsOnly(token) ==
  lookup([i \in DOMAIN group.tokens |-> group.tokens[i].mint], group.numOracles, token, 0)

getTokenIndex(token) ==
  lookup([i \in DOMAIN group.tokens |-> group.tokens[i].mint], Len(group.tokens), token, 0)

getRootBankIndex(rootBank) ==
  lookup([i \in DOMAIN group.tokens |-> group.tokens[i].rootBank],
         Len(group.tokens), rootBank, 0)

InitIndex ==
  /\ \E n \in 0 .. NumOracles :
       \E spot \in [1 .. n -> BOOLEAN], perp \in [1 .. n -> BOOLEAN] :
         group = LyraeGroup_constructor(DecodedGroup(n, spot, perp))
  /\ LET prof == [i \in Markets |->
                    Profile(0, 0, NoOpenOrders, FALSE, FALSE, NoPerpAccount, Units(3))]
     IN /\ cache = MkCache(prof)
        /\ account = MkAccount(prof, <<0, 0>>, FALSE)
  /\ pc = "idle"
  /\ called = <<"none">>
  /\ result = NoResult
  /\ comp = NoComponents
  /\ ncalls = 0
  /\ x = 0
  /\ buf = NoResult
  /\ y = NoResult

CallGetOracleIndex ==
  \E key \in LookupKeys : Call(<<"getOracleIndex", key>>, getOracleIndex(key))

CallGetSpotMarketIndex ==
  \E key \in LookupKeys : Call(<<"getSpotMarketIndex", key>>, getSpotMarketIndex(key))

CallGetPerpMarketIndex ==
  \E key \in LookupKeys : Call(<<"getPerpMarketIndex", key>>, getPerpMarketIndex(key))

CallGetTokenIndex ==
  \E key \in LookupKeys : Call(<<"getTokenIndex", key>>, getTokenIndex(key))

CallGetRootBankIndex ==
  \E key \in LookupKeys : Call(<<"getRootBankIndex", key>>, getRootBankIndex(key))

NextIndex ==
  \/ CallGetOracleIndex
  \/ CallGetSpotMarketIndex
  \/ CallGetPerpMarketIndex
  \/ CallGetTokenIndex
  \/ CallGetRootBankIndex
  \/ Return

SpecIndex == InitIndex /\ [][NextIndex]_vars

\* ---------------------------------------------------------------- settlePnl
\* x is the call: the subject account's key and PnL in the market, the fees
\* the market has accrued, and the pool of candidate accounts, each with the
\* PnL getPnl computes for it and the PnL the ranking service has logged.
\* The pools are every choice of up to PoolSize accounts, and pools around
\* MaxInstructions accounts that each hold the smallest opposing PnL.

PoolSize == 3
MaxInstructions == 10

PnlSamples == {-Units(2), -Units(1), ZERO_I80F48, Units(1), Units(3)}

cmp(a, b) == IF a < b THEN -1 ELSE IF a > b THEN 1 ELSE 0

\* Array.sort((a, b) => sign * a.pnl.cmp(b.pnl)), a stable sort
RECURSIVE sortByPnl(_, _)
sortByPnl(accounts, sign) ==
  IF accounts = <<>> THEN <<>>
  ELSE LET rest == sortByPnl(SubSeq(accounts, 1, Len(accounts) - 1), sign)
           a == accounts[Len(accounts)]
           k == Cardinality({i \in DOMAIN rest : sign * cmp(rest[i].pnl, a.pnl) <= 0})
       IN SubSeq(rest, 1, k) \o <<a>> \o SubSeq(rest, k + 1, Len(rest))

\* faulty variant: the accounts are always sorted by ascending PnL
fetchTopPnlAccountsFromRPC_ascending(sign) ==
  sortByPnl([i \in DOMAIN x.pool |->
               [publicKey |-> x.pool[i].publicKey, pnl |-> x.pool[i].pnl]], 1)

fetchTopPnlAccountsFromRPC(sign) ==
  sortByPnl([i \in DOMAIN x.pool |->
               [publicKey |-> x.pool[i].publicKey, pnl |-> x.pool[i].pnl]], sign)

\* the service answers in the order asked for, ASC for sign 1 and DESC
\* otherwise, with the PnL it has logged
fetchTopPnlAccountsFromDB(sign) ==
  sortByPnl([i \in DOMAIN x.pool |->
               [publicKey |-> x.pool[i].publicKey, pnl |-> x.pool[i].logged]], sign)

\* faulty variant: the subject's own account is not recognised
ownAccount_never(candidate) == FALSE

ownAccount(candidate) == candidate.publicKey = x.publicKey

Instruction(type, candidate, rank) ==
  [type |-> type, counterparty |-> candidate.publicKey, pnl |-> candidate.pnl, rank |-> rank]

\* for (const account of accountsWithPnl) { ... }, from the i-th account on
RECURSIVE settleLoop(_, _, _, _, _)

\* the loop without its break on a change of sign
settleLoop_noBreak(accountsWithPnl, i, pnl, sign, instructions) ==
  IF i > Len(accountsWithPnl) THEN [pnl |-> pnl, instructions |-> instructions]
  ELSE LET candidate == accountsWithPnl[i]
           added == Append(instructions, Instruction("SettlePnl", candidate, i))
       IN IF /\ ~ownAccount(candidate)
             /\ \/ isPos(pnl) /\ isNeg(candidate.pnl)
                \/ isNeg(pnl) /\ isPos(candidate.pnl)
             /\ Len(instructions) < MaxInstructions
          THEN settleLoop(accountsWithPnl, i + 1, add(pnl, candidate.pnl), sign, added)
          ELSE settleLoop(accountsWithPnl, i + 1, pnl, sign, instructions)

settleLoop(accountsWithPnl, i, pnl, sign, instructions) ==
  IF i > Len(accountsWithPnl) THEN [pnl |-> pnl, instructions |-> instructions]
  ELSE LET candidate == accountsWithPnl[i]
           remaining == add(pnl, candidate.pnl)
           remSign == IF gt(remaining, ZERO_I80F48) THEN 1 ELSE -1
           added == Append(instructions, Instruction("SettlePnl", candidate, i))
       IN IF ownAccount(candidate)
          THEN settleLoop(accountsWithPnl, i + 1, pnl, sign, instructions)
          ELSE IF /\ \/ isPos(pnl) /\ isNeg(candidate.pnl)
                     \/ isNeg(pnl) /\ isPos(candidate.pnl)
                  /\ Len(instructions) < MaxInstructions
          THEN IF remSign # sign
               THEN [pnl |-> remaining, instructions |-> added]
               ELSE settleLoop(accountsWithPnl, i + 1, remaining, sign, added)
          ELSE settleLoop(accountsWithPnl, i + 1, pnl, sign, instructions)

\* what was handed to sendTransaction
Sent(instructions, pnl, accountsWithPnl, sign) ==
  [kind |-> "sent", instructions |-> instructions, pnl |-> pnl,
   accountsWithPnl |-> accountsWithPnl, sign |-> sign]

\* settlePnl with the candidates taken from the ranking service (path "db")
\* or from fetchTopPnlAccountsFromRPC (path "rpc": not on mainnet, or the
\* service failed). I80F48.fromString('-0.000001') is the negative value
\* nearest to zero.
settlePnl(path) ==
  LET sign == IF gt(x.pnl, ZERO_I80F48) THEN 1 ELSE -1
      settleFees == <<Instruction("SettleFees", [publicKey |-> x.publicKey, pnl |-> x.pnl], 0)>>
      afterFees == min(add(x.pnl, x.feesAccrued), ZERO_I80F48 - 1)
      pnl == IF sign = 1 THEN x.pnl ELSE afterFees
      instructions == IF sign = 1 THEN <<>> ELSE settleFees
      accountsWithPnl == IF path = "db" THEN fetchTopPnlAccountsFromDB(sign)
                         ELSE fetchTopPnlAccountsFromRPC(sign)
      out == settleLoop(accountsWithPnl, 1, pnl, sign, instructions)
  IN IF x.pnl = ZERO_I80F48 THEN [kind |-> "null"]
     ELSE IF sign = -1 /\ (IF gt(afterFees, ZERO_I80F48) THEN 1 ELSE -1) # sign
          THEN Sent(settleFees, afterFees, <<>>, sign)
     ELSE Sent(out.instructions, out.pnl, accountsWithPnl, sign)

InitSettle ==
  /\ LET prof == [i \in Markets |->
                    Profile(0, 0, NoOpenOrders, FALSE, FALSE, NoPerpAccount, Units(3))]
     IN /\ group = MkGroup(prof)
        /\ cache = MkCache(prof)
        /\ account = MkAccount(prof, <<0, 0>>, FALSE)
  /\ pc = "idle"
  /\ called = <<"none">>
  /\ result = NoResult
  /\ comp = NoComponents
  /\ ncalls = 0
  /\ buf = NoResult
  /\ y = NoResult
  /\ \E pnl \in PnlSamples, feesAccrued \in {ZERO_I80F48, Units(1), Units(3)},
        n \in 0 .. PoolSize \cup {MaxInstructions - 1, MaxInstructions + 1} :
       \E others \in (IF n <= PoolSize
                      THEN [1 .. n -> PnlSamples]
                      ELSE {[i \in 1 .. n |-> IF pnl > 0 THEN -1 ELSE 1]}),
          own \in BOOLEAN, logged \in PnlSamples :
         /\ own \/ logged = ZERO_I80F48
         /\ x = [publicKey |-> 1, pnl |-> pnl, feesAccrued |-> feesAccrued,
                 pool |-> (IF own
                           THEN <<[publicKey |-> 1, pnl |-> pnl, logged |-> logged]>>
                           ELSE <<>>)
                          \o [i \in 1 .. n |->
                                [publicKey |-> i + 1, pnl |-> others[i], logged |-> others[i]]]]

CallSettlePnl ==
  \E path \in {"rpc", "db"} : Call(<<"settlePnl", path>>, settlePnl(path))

NextSettle == CallSettlePnl \/ Return

SpecSettle == InitSettle /\ [][NextSettle]_vars

\* ------------------------------------------------------- root bank rates
\* x is the root bank: its key, the three points of the curve, the two
\* indexes and the node banks loaded; group lists the root banks with the
\* decimals of their tokens.
RateSamples == {Frac(1, 4), Frac(1, 2), Units(1), Frac(3, 2)}

UtilSamples == {Frac(1, 2), Frac(3, 4)}

ShareSamples == {ZERO_I80F48, Units(1), Units(4), Units(10)}

NodeBanksEmpty == [kind |-> "throws", error |-> "Node bank accounts empty"]

\* the value of a chain of operations that each construct an I80F48: the
\* first failure of the chain, or the value of the last operation
RECURSIVE Chain(_, _)
Chain(steps, i) ==
  IF steps[i].kind # "value" \/ i = Len(steps) THEN steps[i] ELSE Chain(steps, i + 1)

RECURSIVE totalOf(_, _, _)
totalOf(nodeBankAccounts, field, n) ==
  IF n = 0 THEN ZERO_I80F48
  ELSE add(totalOf(nodeBankAccounts, field, n - 1), nodeBankAccounts[n][field])

\* getNativeTotalDeposit / getNativeTotalBorrow
getNativeTotal(field, index) ==
  LET n == Len(x.nodeBankAccounts)
      total == totalOf(x.nodeBankAccounts, field, n)
  IN IF n = 0 THEN NodeBanksEmpty
     ELSE Chain(<<newI80F48(total), newI80F48(mul(index, total))>>, 1)

\* getUiTotalDeposit / getUiTotalBorrow
getUiTotal(field, index) ==
  LET tokenIndex == getRootBankIndex(x.publicKey)
      native == getNativeTotal(field, index)
  IN IF tokenIndex.kind # "value" THEN tokenIndex
     ELSE IF native.kind # "value" THEN native
     ELSE newI80F48(nativeI80F48ToUi(native.v, group.tokens[tokenIndex.v + 1].decimals))

getUiTotalBorrow == getUiTotal("borrows", x.borrowIndex)

getUiTotalDeposit == getUiTotal("deposits", x.depositIndex)

\* faulty variant: above optimalUtil the second slope starts from zero
rateCurve_fromZero(utilization) ==
  IF gt(utilization, x.optimalUtil)
  THEN LET slope == div(sub(x.maxRate, x.optimalRate), sub(fromNumber(1, 1), x.optimalUtil))
       IN newI80F48(mul(slope, sub(utilization, x.optimalUtil)))
  ELSE newI80F48(mul(div(x.optimalRate, x.optimalUtil), utilization))

\* the two slopes of getBorrowRate
rateCurve(utilization) ==
  IF gt(utilization, x.optimalUtil)
  THEN LET extraUtil == sub(utilization, x.optimalUtil)
           rest == sub(fromNumber(1, 1), x.optimalUtil)
           slope == divCall(sub(x.maxRate, x.optimalRate), rest)
       IN IF slope.kind # "value" THEN slope
          ELSE Chain(<<newI80F48(extraUtil), newI80F48(mul(slope.v, extraUtil)),
                       newI80F48(add(x.optimalRate, mul(slope.v, extraUtil)))>>, 1)
  ELSE LET slope == divCall(x.optimalRate, x.optimalUtil)
       IN IF slope.kind # "value" THEN slope
          ELSE newI80F48(mul(slope.v, utilization))

getBorrowRate ==
  LET totalBorrows == getUiTotalBorrow
      totalDeposits == getUiTotalDeposit
      utilization == divCall(totalBorrows.v, totalDeposits.v)
  IN IF totalBorrows.kind # "value" THEN totalBorrows
     ELSE IF totalDeposits.kind # "value" THEN totalDeposits
     ELSE IF totalDeposits.v = ZERO_I80F48 /\ totalBorrows.v = ZERO_I80F48
          THEN Returns(ZERO_I80F48)
     ELSE IF lte(totalDeposits.v, totalBorrows.v) THEN Returns(x.maxRate)
     ELSE IF utilization.kind # "value" THEN utilization
     ELSE rateCurve(utilization.v)

getDepositRate ==
  LET borrowRate == getBorrowRate
      totalBorrows == getUiTotalBorrow
      totalDeposits == getUiTotalDeposit
      utilization == divCall(totalBorrows.v, totalDeposits.v)
  IN IF borrowRate.kind # "value" THEN borrowRate
     ELSE IF totalDeposits.v = ZERO_I80F48 /\ totalBorrows.v = ZERO_I80F48
          THEN Returns(ZERO_I80F48)
     ELSE IF totalDeposits.v = ZERO_I80F48 THEN Returns(x.maxRate)
     ELSE IF utilization.kind # "value" THEN utilization
     ELSE newI80F48(mul(utilization.v, borrowRate.v))

InitRate ==
  /\ LET decoded == LyraeGroup_constructor(
                      DecodedGroup(NumOracles, [i \in 1 .. NumOracles |-> i = 1],
                                   [i \in 1 .. NumOracles |-> FALSE]))
     IN group = [decoded EXCEPT !.tokens =
                   [i \in DOMAIN decoded.tokens |->
                      [mint |-> decoded.tokens[i].mint,
                       rootBank |-> decoded.tokens[i].rootBank,
                       decimals |-> IF i = QUOTE_INDEX + 1 THEN 1 ELSE 0]]]
  /\ LET prof == [i \in Markets |->
                    Profile(0, 0, NoOpenOrders, FALSE, FALSE, NoPerpAccount, Units(3))]
     IN /\ cache = MkCache(prof)
        /\ account = MkAccount(prof, <<0, 0>>, FALSE)
  /\ pc = "idle"
  /\ called = <<"none">>
  /\ result = NoResult
  /\ comp = NoComponents
  /\ ncalls = 0
  /\ buf = NoResult
  /\ y = NoResult
  /\ \E publicKey \in {KeyOf(1), KeyOf(2), KeyOf(QUOTE_INDEX + 1)},
        optimalUtil \in UtilSamples, optimalRate \in RateSamples, maxRate \in RateSamples,
        depositIndex \in {Units(1), Frac(5, 4)}, n \in 0 .. 2 :
       \E deposits \in [1 .. n -> ShareSamples], borrows \in [1 .. n -> ShareSamples] :
         /\ optimalRate <= maxRate
         /\ x = [publicKey |-> publicKey, optimalUtil |-> optimalUtil,
                 optimalRate |-> optimalRate, maxRate |-> maxRate,
                 depositIndex |-> depositIndex, borrowIndex |-> Frac(5, 4),
                 nodeBankAccounts |->
                   [i \in 1 .. n |-> [deposits |-> deposits[i], borrows |-> borrows[i]]]]

CallGetBorrowRate == Call(<<"getBorrowRate">>, getBorrowRate)

CallGetDepositRate == Call(<<"getDepositRate">>, getDepositRate)

NextRate ==
  \/ CallGetBorrowRate
  \/ CallGetDepositRate
  \/ Return

SpecRate == InitRate /\ [][NextRate]_vars

\* ------------------------------------------------------------ event queue
\* x is a decoded event queue: head, count and seqNum of the header and the
\* fixed array of event slots. The program appends an event at slot
\* (head + count) mod length with the running sequence number and consumes
\* from head; a consumed slot keeps its bytes.
QueueSlots == 3
MaxSeqNum == 4

EventTypes == {"fill", "out", "liquidate"}

\* PerpEventQueueLayout.decode of an account the program has just created:
\* every slot is zero bytes
EmptyQueue ==
  [head |-> 0, count |-> 0, seqNum |-> 0,
   events |-> [i \in 1 .. QueueSlots |-> [eventType |-> "fill", seqNum |-> 0]]]

\* the slot i places after head
slotAt(i) == x.events[((x.head + i) % Len(x.events)) + 1]

\* faulty variant: the scan runs over the whole array
scanFromHead_wholeArray(since, i) ==
  SelectSeq([k \in 1 .. Len(x.events) |-> slotAt(k - 1)], LAMBDA e : e.seqNum >= since)

\* one linear scan from the head over the count events held, keeping those
\* whose sequence number is at least seq
RECURSIVE scanFromHead(_, _)
scanFromHead(since, i) ==
  IF i >= x.count THEN <<>>
  ELSE IF slotAt(i).seqNum >= since
       THEN <<slotAt(i)>> \o scanFromHead(since, i + 1)
       ELSE scanFromHead(since, i + 1)

eventsSince(since) == scanFromHead(since, 0)

\* the sequence number of the event at head
headSeqNum == x.seqNum - x.count

getUnconsumedEvents == eventsSince(headSeqNum)

\* q.eventsSince(ZERO_BN).map((e) => e.fill).filter((e) => !!e)
loadFills == SelectSeq(eventsSince(0), LAMBDA e : e.eventType = "fill")

Events(v) == [kind |-> "events", v |-> v]

InitQueue ==
  /\ LET prof == [i \in Markets |->
                    Profile(0, 0, NoOpenOrders, FALSE, FALSE, NoPerpAccount, Units(3))]
     IN /\ group = MkGroup(prof)
        /\ cache = MkCache(prof)
        /\ account = MkAccount(prof, <<0, 0>>, FALSE)
  /\ pc = "idle"
  /\ called = <<"none">>
  /\ result = NoResult
  /\ comp = NoComponents
  /\ ncalls = 0
  /\ buf = NoResult
  /\ y = NoResult
  /\ x = EmptyQueue

\* the queue is loaded again after the program has appended an event
ProgramAppends ==
  \E eventType \in EventTypes :
    /\ pc = "idle"
    /\ x.count < Len(x.events)
    /\ x.seqNum < MaxSeqNum
    /\ x' = [x EXCEPT !.count = @ + 1, !.seqNum = @ + 1,
                      !.events[((x.head + x.count) % Len(x.events)) + 1] =
                         [eventType |-> eventType, seqNum |-> x.seqNum]]
    /\ UNCHANGED <<Snapshot, pc, called, result, comp, ncalls, buf, y>>

\* the queue is loaded again after the program has consumed the head event
ProgramConsumes ==
  /\ pc = "idle"
  /\ x.count > 0
  /\ x' = [x EXCEPT !.head = (@ + 1) % Len(x.events), !.count = @ - 1]
  /\ UNCHANGED <<Snapshot, pc, called, result, comp, ncalls, buf, y>>

CallEventsSince ==
  \E since \in 0 .. MaxSeqNum : Call(<<"eventsSince", since>>, Events(eventsSince(since)))

CallGetUnconsumedEvents == Call(<<"getUnconsumedEvents">>, Events(getUnconsumedEvents))

CallLoadFills == Call(<<"loadFills">>, Events(loadFills))

NextQueue ==
  \/ ProgramAppends
  \/ ProgramConsumes
  \/ CallEventsSince
  \/ CallGetUnconsumedEvents
  \/ CallLoadFills
  \/ Return

SpecQueue == InitQueue /\ [][NextQueue]_vars

\* --------------------------------------------------- bankruptcy resolution
\* x is a liquidator's session: the liqee account as last reloaded, the
\* position of the liquidation test script, and the instructions sent, each
\* with the isBankrupt flag of the liqee object it was built from. What the
\* program does with an instruction is not the client's: a reload may find
\* the flag either way.
MaxSent == 4

InstructionSent(type, by) ==
  [type |-> type, by |-> by, isBankrupt |-> x.liqee.isBankrupt]

\* sendTransaction of the one instruction, then liqeeAccount.reload
sendAndReload(type, by, isBankrupt) ==
  [x EXCEPT !.sent = Append(@, InstructionSent(type, by)),
            !.liqee.isBankrupt = isBankrupt]

\* resolvePerpBankruptcy / resolveTokenBankruptcy: nodeBanks[0] of a root
\* bank without node banks is undefined and reading its key throws; the
\* liqee is not examined
resolveBankruptcy(type, by, nodeBanks) ==
  IF nodeBanks = 0 THEN x.sent ELSE Append(x.sent, InstructionSent(type, by))

InitBankruptcy ==
  /\ LET prof == [i \in Markets |->
                    Profile(0, 0, NoOpenOrders, FALSE, FALSE, NoPerpAccount, Units(3))]
     IN /\ group = MkGroup(prof)
        /\ cache = MkCache(prof)
        /\ account = MkAccount(prof, <<0, 0>>, FALSE)
  /\ pc = "idle"
  /\ called = <<"none">>
  /\ result = NoResult
  /\ comp = NoComponents
  /\ ncalls = 0
  /\ buf = NoResult
  /\ y = NoResult
  /\ x = [liqee |-> [isBankrupt |-> FALSE], step |-> "liquidatePerpMarket", sent |-> <<>>]

\* faulty variant: the script resolves without reading the flag
testResolves_unguarded == TRUE

\* if (liqeeAccount.isBankrupt) in the test script
testResolves == x.liqee.isBankrupt

TestLiquidatePerpMarket ==
  \E isBankrupt \in BOOLEAN :
    /\ x.step = "liquidatePerpMarket"
    /\ Len(x.sent) < MaxSent
    /\ x' = [sendAndReload("LiquidatePerpMarket", "test", isBankrupt)
               EXCEPT !.step = "liquidateTokenAndPerp"]
    /\ UNCHANGED <<Snapshot, pc, called, result, comp, ncalls, buf, y>>

TestLiquidateTokenAndPerp ==
  \E isBankrupt \in BOOLEAN :
    /\ x.step = "liquidateTokenAndPerp"
    /\ Len(x.sent) < MaxSent
    /\ x' = [sendAndReload("LiquidateTokenAndPerp", "test", isBankrupt)
               EXCEPT !.step = "resolvePerpBankruptcy"]
    /\ UNCHANGED <<Snapshot, pc, called, result, comp, ncalls, buf, y>>

TestResolvePerpBankruptcy ==
  \E isBankrupt \in BOOLEAN :
    /\ x.step = "resolvePerpBankruptcy"
    /\ Len(x.sent) < MaxSent
    /\ x' = [x EXCEPT !.sent = IF testResolves
                                THEN resolveBankruptcy("ResolvePerpBankruptcy", "test", 1)
                                ELSE @,
                      !.liqee.isBankrupt = isBankrupt,
                      !.step = "done"]
    /\ UNCHANGED <<Snapshot, pc, called, result, comp, ncalls, buf, y>>

\* any caller of the client, with the liqee object it holds
CallLiquidate ==
  \E type \in {"LiquidatePerpMarket", "LiquidateTokenAndPerp", "LiquidateTokenAndToken"},
     isBankrupt \in BOOLEAN :
    /\ Len(x.sent) < MaxSent
    /\ x' = sendAndReload(type, "caller", isBankrupt)
    /\ UNCHANGED <<Snapshot, pc, called, result, comp, ncalls, buf, y>>

CallResolvePerpBankruptcy ==
  \E nodeBanks \in 0 .. 1 :
    /\ Len(x.sent) < MaxSent
    /\ x' = [x EXCEPT !.sent = resolveBankruptcy("ResolvePerpBankruptcy", "caller", nodeBanks)]
    /\ UNCHANGED <<Snapshot, pc, called, result, comp, ncalls, buf, y>>

CallResolveTokenBankruptcy ==
  \E nodeBanks \in 0 .. 1 :
    /\ Len(x.sent) < MaxSent
    /\ x' = [x EXCEPT !.sent = resolveBankruptcy("ResolveTokenBankruptcy", "caller", nodeBanks)]
    /\ UNCHANGED <<Snapshot, pc, called, result, comp, ncalls, buf, y>>

NextBankruptcy ==
  \/ TestLiquidatePerpMarket
  \/ TestLiquidateTokenAndPerp
  \/ TestResolvePerpBankruptcy
  \/ CallLiquidate
  \/ CallResolvePerpBankruptcy
  \/ CallResolveTokenBankruptcy

SpecBankruptcy == InitBankruptcy /\ [][NextBankruptcy]_vars

\* ------------------------------------------------- signature confirmation
\* x is one call of awaitTransactionSignatureConfirmation, of the client
\* ("client") or of the utilities ("utils"): the done flag, the promise the
\* call awaits, the timer, the signature subscription, the polling loop and
\* the REST requests in flight.
MaxPolls == 2

Variants == {"client", "utils"}

RestResponses == {"null", "err", "notConfirmed", "confirmed", "connectionError"}

NotCalled ==
  [variant |-> "client", started |-> FALSE, done |-> FALSE, promise |-> "pending",
   timer |-> "unset", listener |-> "none", subscriptionId |-> "undefined",
   loop |-> "unset", retrySleep |-> 200, polls |-> 0, returned |-> FALSE]

\* resolve / reject: only the first call settles the promise
settle(outcome) == IF x.promise = "pending" THEN outcome ELSE x.promise

\* the synchronous part of the call: the timer is set, onSignature
\* subscribes or throws, and the loop is entered unless done is set
start(variant, setupFails) ==
  [NotCalled EXCEPT
     !.variant = variant,
     !.started = TRUE,
     !.timer = "armed",
     !.listener = IF setupFails THEN "none" ELSE "listening",
     !.subscriptionId = IF setupFails \/ variant = "utils" THEN "undefined" ELSE "set",
     !.done = setupFails,
     !.loop = IF setupFails THEN "exited" ELSE "sleeping",
     !.polls = IF ~setupFails /\ variant = "utils" THEN 1 ELSE 0]

\* the setTimeout callback
timeoutCallback ==
  IF x.done THEN [x EXCEPT !.timer = "fired"]
  ELSE [x EXCEPT !.timer = "fired", !.done = TRUE, !.promise = settle("rejected")]

\* the onSignature callback
signatureCallback(err) ==
  [x EXCEPT !.listener = "notified",
            !.subscriptionId = "undefined",
            !.done = TRUE,
            !.promise = settle(IF err THEN "rejected" ELSE "resolved")]

\* the loop after its sleep: the client polls, doubles retrySleep and tests
\* done; the utilities test done and poll before sleeping again
loopWakes ==
  IF x.variant = "client"
  THEN [x EXCEPT !.polls = @ + 1,
                 !.retrySleep = IF @ <= 1600 THEN @ * 2 ELSE @,
                 !.loop = IF x.done THEN "exited" ELSE "sleeping"]
  ELSE IF x.done THEN [x EXCEPT !.loop = "exited"]
       ELSE [x EXCEPT !.polls = @ + 1]

\* the answer of one getSignatureStatuses request
restCallback(response) ==
  IF x.done \/ response \in {"null", "notConfirmed", "connectionError"}
  THEN [x EXCEPT !.polls = @ - 1]
  ELSE [x EXCEPT !.polls = @ - 1,
                 !.done = TRUE,
                 !.promise = settle(IF response = "err" THEN "rejected" ELSE "resolved")]

\* the code after the await: the listener is removed if subscriptionId is set
afterAwait ==
  [x EXCEPT !.returned = TRUE,
            !.done = TRUE,
            !.listener = IF x.subscriptionId = "set" THEN "removed" ELSE @]

InitConfirm ==
  /\ LET prof == [i \in Markets |->
                    Profile(0, 0, NoOpenOrders, FALSE, FALSE, NoPerpAccount, Units(3))]
     IN /\ group = MkGroup(prof)
        /\ cache = MkCache(prof)
        /\ account = MkAccount(prof, <<0, 0>>, FALSE)
  /\ pc = "idle"
  /\ called = <<"none">>
  /\ result = NoResult
  /\ comp = NoComponents
  /\ ncalls = 0
  /\ buf = NoResult
  /\ y = NoResult
  /\ x = NotCalled

Session == UNCHANGED <<Snapshot, pc, called, result, comp, ncalls, buf, y>>

Start ==
  \E variant \in Variants, setupFails \in BOOLEAN :
    /\ ~x.started
    /\ x' = start(variant, setupFails)
    /\ Session

TimerFires ==
  /\ x.timer = "armed"
  /\ x' = timeoutCallback
  /\ Session

WsNotifies ==
  \E err \in BOOLEAN :
    /\ x.listener = "listening"
    /\ x' = signatureCallback(err)
    /\ Session

LoopWakes ==
  /\ x.loop = "sleeping"
  /\ x.polls < MaxPolls
  /\ x' = loopWakes
  /\ Session

RestResponds ==
  \E response \in RestResponses :
    /\ x.polls > 0
    /\ x' = restCallback(response)
    /\ Session

AwaitReturns ==
  /\ x.promise # "pending"
  /\ ~x.returned
  /\ x' = afterAwait
  /\ Session

NextConfirm ==
  \/ Start
  \/ TimerFires
  \/ WsNotifies
  \/ LoopWakes
  \/ RestResponds
  \/ AwaitReturns

SpecConfirm == InitConfirm /\ [][NextConfirm]_vars

\* timers fire, sleeps end, requests are answered or fail, and a settled
\* promise resumes the caller; a signature notification may never come
SpecConfirmLive ==
  /\ SpecConfirm
  /\ WF_vars(TimerFires)
  /\ WF_vars(LoopWakes)
  /\ WF_vars(RestResponds)
  /\ WF_vars(AwaitReturns)

\* ------------------------------------------------------------ resend loop
\* x is one call of sendTransaction or sendSignedTransaction: the done flag
\* shared with the background loop, what the call has come to, the loop's
\* position, the number of times the raw transaction was submitted, and
\* whether the loop's time limit has passed.
MaxSubmits == 4

SendMethods == {"sendTransaction", "sendSignedTransaction"}

NotSent ==
  [method |-> "sendTransaction", outcome |-> "notCalled", error |-> "none", done |-> FALSE,
   loop |-> "unset", retrySleep |-> 15000, submitted |-> 0, expired |-> FALSE]

Finished == x.outcome \in {"returned", "thrown"}

\* the first sendRawTransaction; a sendTransaction without timeout returns
\* the signature at once, otherwise the loop starts with a sleep
send(method, timeout) ==
  IF method = "sendTransaction" /\ ~timeout
  THEN [NotSent EXCEPT !.method = method, !.outcome = "returned", !.submitted = 1]
  ELSE [NotSent EXCEPT !.method = method, !.outcome = "awaiting", !.submitted = 1,
                       !.loop = "sleeping"]

\* the background loop when its sleep ends. sendTransaction tests
\* `!done && getUnixTs() - startTime < timeout / 1000` before the sleep and
\* submits after it; sendSignedTransaction tests and submits in one step
resendWakes ==
  IF x.method = "sendTransaction"
  THEN [x EXCEPT !.submitted = @ + 1,
                 !.retrySleep = IF @ <= 6000 THEN @ * 2 ELSE @,
                 !.loop = IF x.done \/ x.expired THEN "exited" ELSE "sleeping"]
  ELSE IF x.done \/ x.expired THEN [x EXCEPT !.loop = "exited"]
       ELSE [x EXCEPT !.submitted = @ + 1]

\* the try / catch / finally around the confirmation: a confirmation returns
\* the signature, a timeout throws, any other rejection waits for
\* simulateTransaction and then throws; done is set in the finally block
confirmationEnds(how) ==
  IF how = "failed" THEN [x EXCEPT !.outcome = "simulating"]
  ELSE [x EXCEPT !.done = TRUE,
                 !.outcome = IF how = "confirmed" THEN "returned" ELSE "thrown",
                 !.error = IF how = "confirmed" THEN "none" ELSE "TimeoutError"]

InitSend ==
  /\ LET prof == [i \in Markets |->
                    Profile(0, 0, NoOpenOrders, FALSE, FALSE, NoPerpAccount, Units(3))]
     IN /\ group = MkGroup(prof)
        /\ cache = MkCache(prof)
        /\ account = MkAccount(prof, <<0, 0>>, FALSE)
  /\ pc = "idle"
  /\ called = <<"none">>
  /\ result = NoResult
  /\ comp = NoComponents
  /\ ncalls = 0
  /\ buf = NoResult
  /\ y = NoResult
  /\ x = NotSent

CallSend ==
  \E method \in SendMethods, timeout \in BOOLEAN :
    /\ x.outcome = "notCalled"
    /\ x' = send(method, timeout)
    /\ Session

ConfirmationEnds ==
  \E how \in {"confirmed", "timeout", "failed"} :
    /\ x.outcome = "awaiting"
    /\ x' = confirmationEnds(how)
    /\ Session

SimulationEnds ==
  /\ x.outcome = "simulating"
  /\ x' = [x EXCEPT !.done = TRUE, !.outcome = "thrown", !.error = "LyraeError"]
  /\ Session

ResendWakes ==
  /\ x.loop = "sleeping"
  /\ x.submitted < MaxSubmits
  /\ x' = resendWakes
  /\ Session

TimePasses ==
  /\ x.outcome # "notCalled"
  /\ ~x.expired
  /\ x' = [x EXCEPT !.expired = TRUE]
  /\ Session

NextSend ==
  \/ CallSend
  \/ ConfirmationEnds
  \/ SimulationEnds
  \/ ResendWakes
  \/ TimePasses

SpecSend == InitSend /\ [][NextSend]_vars

\* ============================================================== properties
Returned(name) == pc = "returned" /\ called[1] = name

\* the weight the health formula gives a position: the asset weight when the
\* position is non-negative, the liability weight when it is negative
WeightFor(pos, assetWeight, liabWeight) == IF pos >= 0 THEN assetWeight ELSE liabWeight

\* spot[i] x price[i] x weight + perp[i] x price[i] x weight at market i
MarketHealth(c, i, healthType) ==
  LET w == getWeights(i, healthType)
      price == cache.priceCache[i].price
  IN mul(mul(c.spot[i], price),
         WeightFor(c.spot[i], w.spotAssetWeight, w.spotLiabWeight))
     + mul(mul(c.perps[i], price),
           WeightFor(c.perps[i], w.perpAssetWeight, w.perpLiabWeight))

\* the sum of MarketHealth over the markets below n, leaving out market `skip`
RECURSIVE HealthSum(_, _, _, _)
HealthSum(c, n, skip, healthType) ==
  IF n <= 0 THEN 0
  ELSE HealthSum(c, n - 1, skip, healthType)
       + (IF n - 1 = skip THEN 0 ELSE MarketHealth(c, n - 1, healthType))

HealthValue(healthType) ==
  LET c == getHealthComponents
  IN c.quote + HealthSum(c, group.numOracles, -1, healthType)

\* C1: isLiquidatable returns true exactly when (beingLiquidated is set and
\* Initial health is below zero) or Maintenance health is below zero.
C1_IsLiquidatable ==
  Returned("isLiquidatable") =>
    (result.v <=> ( \/ (account.beingLiquidated /\ HealthValue("Init") < 0)
                    \/ HealthValue("Maint") < 0 ))

\* an account under liquidation whose Maintenance health has recovered but
\* whose Initial health is still negative is reported liquidatable
C1_Witness ==
  /\ Returned("isLiquidatable")
  /\ result.v
  /\ account.beingLiquidated
  /\ HealthValue("Maint") >= 0
  /\ HealthValue("Init") < 0

\* C2: getHealth(Init | Maint) is quote plus, over every market with an
\* oracle, spot x price x weight and perp x price x weight, with the asset
\* weight for a non-negative position and the liability weight otherwise.
C2_HealthFormula ==
  Returned("getHealth") =>
    (result.kind = "value" /\ result.v = HealthValue(called[2]))

C2_Witness ==
  /\ Returned("getHealth")
  /\ called[2] = "Init"
  /\ LET c == getHealthComponents
     IN /\ \E i \in Markets : c.spot[i] < 0
        /\ \E i \in Markets : c.spot[i] > 0
        /\ \E i \in Markets : c.perps[i] < 0
  /\ result.v # HealthValue("Maint")

\* the two hypotheses of a market, each with the position it leaves and the
\* amount it adds to the quote component
SpotCase(i, side) ==
  LET oo == splitOpenOrders(account.spotOpenOrdersAccounts[i])
      price == cache.priceCache[i].price
  IN IF side = "bids"
     THEN [pos |-> getNet(i) + div(oo.quoteLocked, price) + oo.baseFree + oo.baseLocked,
           adj |-> oo.quoteFree]
     ELSE [pos |-> getNet(i) + oo.baseFree,
           adj |-> mul(oo.baseLocked, price) + oo.quoteFree + oo.quoteLocked]

PerpCase(i, side) ==
  LET pa == account.perpAccounts[i]
      lot == group.perpMarkets[i].baseLotSize
      price == cache.priceCache[i].price
      basePos == Units((pa.basePosition + pa.takerBase) * lot)
      quotePos == getQuotePosition(i) + Units(pa.takerQuote * group.perpMarkets[i].quoteLotSize)
  IN IF side = "bids"
     THEN [pos |-> basePos + Units(pa.bidsQuantity * lot),
           adj |-> quotePos - mul(Units(pa.bidsQuantity * lot), price)]
     ELSE [pos |-> basePos - Units(pa.asksQuantity * lot),
           adj |-> quotePos + mul(Units(pa.asksQuantity * lot), price)]

Sides == {"bids", "asks"}
Other(side) == IF side = "bids" THEN "asks" ELSE "bids"
HasSpotOrders(i) == account.inMarginBasket[i] /\ account.spotOpenOrdersAccounts[i].loaded
HasPerp(i) == group.perpMarkets[i].registered

RECURSIVE AdjSum(_, _, _)
AdjSum(s, p, n) ==
  IF n <= 0 THEN 0
  ELSE AdjSum(s, p, n - 1)
       + (IF HasSpotOrders(n - 1) THEN SpotCase(n - 1, s[n - 1]).adj ELSE 0)
       + (IF HasPerp(n - 1) THEN PerpCase(n - 1, p[n - 1]).adj ELSE 0)

\* the components are those of the choice s (spot) and p (perp) of hypotheses
ComponentsOf(c, s, p) ==
  /\ \A i \in Markets :
       /\ HasSpotOrders(i) =>
            /\ c.spot[i] = SpotCase(i, s[i]).pos
            /\ Abs(SpotCase(i, s[i]).pos) >= Abs(SpotCase(i, Other(s[i])).pos)
       /\ HasPerp(i) =>
            /\ c.perps[i] = PerpCase(i, p[i]).pos
            /\ Abs(PerpCase(i, p[i]).pos) >= Abs(PerpCase(i, Other(p[i])).pos)
  /\ c.quote = getNet(QUOTE_INDEX) + AdjSum(s, p, NumOracles)

\* C3: for each market with spot open orders in the basket or a registered
\* perp market, the position kept is that of the hypothesis with the larger
\* absolute position, and the quote adjustment added is that same
\* hypothesis's, never the other's.
C3_WorstCaseHypothesis ==
  Returned("getHealthComponents") =>
    \E s \in [Markets -> Sides], p \in [Markets -> Sides] : ComponentsOf(result.v, s, p)

\* a snapshot where one market's bids hypothesis and another market's asks
\* hypothesis are the strictly larger ones and their adjustments differ
C3_Witness ==
  /\ Returned("getHealthComponents")
  /\ \E i \in Markets :
       /\ HasSpotOrders(i)
       /\ result.v.spot[i] = SpotCase(i, "bids").pos
       /\ Abs(SpotCase(i, "bids").pos) > Abs(SpotCase(i, "asks").pos)
       /\ SpotCase(i, "bids").adj # SpotCase(i, "asks").adj
  /\ \E i \in Markets :
       /\ HasPerp(i)
       /\ result.v.perps[i] = PerpCase(i, "asks").pos
       /\ Abs(PerpCase(i, "asks").pos) > Abs(PerpCase(i, "bids").pos)
       /\ PerpCase(i, "bids").adj # PerpCase(i, "asks").adj

EmptyAccount ==
  /\ \A t \in Tokens : account.deposits[t] = 0 /\ account.borrows[t] = 0
  /\ \A i \in Markets :
       /\ ~account.spotOpenOrdersAccounts[i].loaded
       /\ account.perpAccounts[i] = NoPerpAccount

\* C4: an account with no deposits, borrows, open orders or perp positions
\* has Initial and Maintenance health 0, both health ratios 100, value 0,
\* leverage 0, and is not liquidatable.
C4_EmptyAccount ==
  (EmptyAccount /\ pc = "returned") =>
    /\ called[1] = "getHealth" => (result.kind = "value" /\ result.v = 0)
    /\ called[1] = "getHealthRatio" => (result.kind = "value" /\ result.v = Units(100))
    /\ called[1] = "computeValue" => (result.kind = "value" /\ result.v = 0)
    /\ called[1] = "getLeverage" => (result.kind = "value" /\ result.v = 0)
    /\ called[1] = "isLiquidatable" => ~result.v

C4_Witness ==
  /\ EmptyAccount
  /\ account.beingLiquidated
  /\ Returned("getHealthRatio")
  /\ called[2] = "Init"
  /\ result.v = Units(100)

\* weighted assets and liabilities: the positive parts and the negated
\* negative parts of quote and of every weighted position
RECURSIVE WeightedSide(_, _, _, _)
WeightedSide(c, n, healthType, positive) ==
  IF n <= 0 THEN 0
  ELSE LET i == n - 1
           w == getWeights(i, healthType)
           price == cache.priceCache[i].price
           part(pos, aw, lw) ==
             IF positive
             THEN (IF pos > 0 THEN mul(mul(pos, price), aw) ELSE 0)
             ELSE (IF pos > 0 THEN 0 ELSE mul(mul(-pos, price), lw))
       IN WeightedSide(c, n - 1, healthType, positive)
          + part(c.spot[i], w.spotAssetWeight, w.spotLiabWeight)
          + part(c.perps[i], w.perpAssetWeight, w.perpLiabWeight)

WeightedAssets(healthType) ==
  LET c == getHealthComponents
  IN (IF c.quote > 0 THEN c.quote ELSE 0) + WeightedSide(c, group.numOracles, healthType, TRUE)

WeightedLiabs(healthType) ==
  LET c == getHealthComponents
  IN (IF c.quote > 0 THEN 0 ELSE -c.quote) + WeightedSide(c, group.numOracles, healthType, FALSE)

\* C5: getHealthRatio is exactly 100 when the weighted liabilities are zero,
\* otherwise 100 x (weighted assets / weighted liabilities - 1), which is
\* negative whenever weighted assets are below weighted liabilities.
C5_HealthRatio ==
  Returned("getHealthRatio") =>
    LET a == WeightedAssets(called[2])
        l == WeightedLiabs(called[2])
    IN /\ result.kind = "value"
       /\ l = 0 => result.v = Units(100)
       /\ l # 0 => result.v = mul(div(a, l) - ONE_I80F48, Units(100))
       /\ (l # 0 /\ a < l) => result.v < 0

C5_Witness ==
  /\ Returned("getHealthRatio")
  /\ WeightedLiabs(called[2]) > 0
  /\ WeightedAssets(called[2]) > 0
  /\ WeightedAssets(called[2]) < WeightedLiabs(called[2])
  /\ result.v < 0

\* C6: getLeverage is liabilities / (assets - liabilities) when assets are
\* positive and differ from the liabilities, and zero when assets are less
\* than or equal to zero; when positive assets equal the liabilities the
\* division by the zero difference fails and nothing is returned.
C6_Leverage ==
  Returned("getLeverage") =>
    LET a == getAssetsVal("None")
        l == getLiabsVal("None")
    IN /\ a <= 0 => (result.kind = "value" /\ result.v = 0)
       /\ (a > 0 /\ a # l) => (result.kind = "value" /\ result.v = div(l, a - l))
       /\ (a > 0 /\ a = l) => result.kind = "throws"

\* liabilities above positive assets: the leverage is negative
C6_Witness ==
  /\ Returned("getLeverage")
  /\ getAssetsVal("None") > 0
  /\ getLiabsVal("None") > getAssetsVal("None")
  /\ result.kind = "value"
  /\ result.v < 0

\* C6 as stated: for every snapshot getLeverage returns a value, the
\* quotient when assets are positive and zero otherwise
C6_AlwaysReturns ==
  Returned("getLeverage") =>
    LET a == getAssetsVal("None")
        l == getLiabsVal("None")
    IN /\ result.kind = "value"
       /\ a <= 0 => result.v = 0
       /\ (a > 0 /\ a # l) => result.v = div(l, a - l)

\* the market's weighted exposure per unit of price, with the sign the
\* liquidation price divides by: a long position counts negative
Exposure(c, k) ==
  LET w == getWeights(k, "Maint")
  IN -( mul(c.spot[k], WeightFor(c.spot[k], w.spotAssetWeight, w.spotLiabWeight))
        + mul(c.perps[k], WeightFor(c.perps[k], w.perpAssetWeight, w.perpLiabWeight)) )

HealthExcluding(c, k) == c.quote + HealthSum(c, group.numOracles, k, "Maint")

DecimalAdj(k) == fromPow10(group.tokens[k].decimals - group.tokens[QUOTE_INDEX].decimals)

\* C7: getLiquidationPrice is undefined when the market's signed weighted
\* exposure is zero or the quotient is negative; otherwise it is Maintenance
\* health without that market, divided by the exposure and adjusted for
\* decimals.  It is never negative.
C7_LiquidationPrice ==
  Returned("getLiquidationPrice") =>
    LET k == called[2]
        c == getHealthComponents
        e == Exposure(c, k)
        h == HealthExcluding(c, k)
    IN /\ e = 0 => result.kind = "undefined"
       /\ (e # 0 /\ div(h, e) < 0) => result.kind = "undefined"
       /\ (e # 0 /\ div(h, e) >= 0) =>
            (result.kind = "value" /\ result.v = mul(div(h, e), DecimalAdj(k)))
       /\ result.kind = "value" => result.v >= 0

C7_Witness ==
  /\ Returned("getLiquidationPrice")
  /\ result.kind = "value"
  /\ result.v > 0
  /\ \E i \in Markets : i # called[2] /\ MarketHealth(getHealthComponents, i, "Maint") # 0

\* C8: every maximum-size and available-balance query returns a value
\* greater than or equal to zero, also when Initial health is negative.
C8_NonNegative ==
  ( /\ pc = "returned"
    /\ called[1] \in {"getAvailableBalance", "getMarketMarginAvailable",
                      "getMaxLeverageForMarket", "getMaxWithBorrowForToken"}
    /\ result.kind = "value" ) => result.v >= 0

\* C9: the health computations modify neither the snapshot nor the arguments
\* passed in, so a computation repeated on the same held components returns
\* what it returned the first time: the health of the snapshot.
C9_PureAndRepeatable ==
  /\ comp.held =>
       LET c == getHealthComponents
       IN comp.spot = c.spot /\ comp.perps = c.perps /\ comp.quote = c.quote
  /\ Returned("getHealthFromComponents") => result.v = HealthValue(called[2])

\* C10: for every x in the representable range the encoding is NumBytes
\* bytes, the little-endian two's complement of x, and decoding those bytes
\* returns x.
C10_RoundTrip ==
  InRange(x) =>
    /\ pc \in {"encoded", "decoded"} =>
         /\ buf.kind = "bytes"
         /\ Len(buf.v) = NumBytes
         /\ \A k \in 1 .. NumBytes : buf.v[k] \in 0 .. (ByteBase - 1)
         /\ WordOf(buf.v, NumBytes) = x % Pow(ByteBase, NumBytes)
    /\ pc = "decoded" => y = Returns(x)

\* a negative value whose low and high bytes differ went through both
\* directions of the layout
C10_Witness ==
  /\ pc = "decoded"
  /\ called = <<"toArray", "I80F48Layout.decode">>
  /\ x < 0
  /\ x > MIN_BN
  /\ buf.v[1] # buf.v[NumBytes]
  /\ y = Returns(x)

\* ---------------------------------------------------- fixed-point calls
\* the raw integers a call was made with: this.data before the call, and
\* the argument's data
ThisData == called[2]
ArgData == called[3]

\* C11: when the product is in range, mul and imul give the product of the
\* raw integers arithmetic-shifted right by FRACTIONS bits, that is rounded
\* toward negative infinity, also when the product is negative.
C11_MulFloors ==
  ( /\ (Returned("mul") \/ Returned("imul"))
    /\ InRange((ThisData * ArgData) \div Pow(2, FRACTIONS)) ) =>
      /\ result.kind = "value"
      /\ result.v = (ThisData * ArgData) \div Pow(2, FRACTIONS)

\* C12: the constructor fails exactly for a raw integer below -2^(MAX_SIZE-1)
\* or above 2^(MAX_SIZE-1) - 1, and accepts every integer of that interval
\* unchanged.
C12_ConstructorRange ==
  Returned("new I80F48") =>
    LET data == called[2]
        outside == data < -Pow(2, MAX_SIZE - 1) \/ data > Pow(2, MAX_SIZE - 1) - 1
    IN /\ outside => result.kind = "throws"
       /\ ~outside => result = Returns(data)

\* the first integer above the interval is refused
C12_Witness ==
  /\ Returned("new I80F48")
  /\ called[2] = Pow(2, MAX_SIZE - 1)
  /\ result.kind = "throws"

\* C13: floor(x) is the largest whole-unit value not above x and ceil(x) the
\* smallest whole-unit value not below x, for negative x too.
C13_FloorCeil ==
  /\ (Returned("floor") /\ result.kind = "value") =>
       /\ result.v % ONE_I80F48 = 0
       /\ result.v <= ThisData
       /\ ThisData - result.v < ONE_I80F48
  /\ (Returned("ceil") /\ result.kind = "value") =>
       /\ result.v % ONE_I80F48 = 0
       /\ result.v >= ThisData
       /\ result.v - ThisData < ONE_I80F48

\* C14: div and idiv by a zero value fail; no value is returned.
C14_DivByZero ==
  ((Returned("div") \/ Returned("idiv")) /\ ArgData = 0) => result.kind = "throws"

\* a non-zero value divided in place by zero
C14_Witness ==
  /\ Returned("idiv")
  /\ ArgData = 0
  /\ ThisData # 0
  /\ result.kind = "throws"

InstructionDecoded == pc = "decoded" /\ called = <<"LyraeInstructionLayout.decode">>

NodeBankDecoded == called[1] \in {"NodeBankLayout.decode", "NodeBankLayout.encode"}

FullSpan == IF NodeBankDecoded THEN NodeBankLayout.span ELSE variantSpan(getSourceVariant(x))

LegacyLength ==
  /\ InstructionDecoded
  /\ \/ x.property = registry[getVariant(11)].property /\ Len(buf.v) = 144
     \/ x.property = registry[getVariant(12)].property /\ Len(buf.v) = 30
     \/ x.property = registry[getVariant(37)].property /\ Len(buf.v) = 141

\* C15: decoding the bytes that encoding a valid value produced returns the
\* value, field for field: an instruction decoded from the untruncated output
\* of encodeLyraeInstruction is the instruction encoded, and a node bank
\* decoded from its account data encodes to bytes that decode to it again.
C15_RoundTrip ==
  /\ (InstructionDecoded /\ Len(buf.v) = FullSpan) =>
       /\ y.kind = "value"
       /\ y.v.property = x.property
       /\ y.v.fields = x.fields
  /\ (pc = "encodedAgain" /\ Len(buf.v) = FullSpan) =>
       /\ result.kind = "bytes"
       /\ Layout_decode(NodeBankLayout, result.v, 0) = y

\* C16: an instruction buffer of a legacy length (discriminant 11 with 144
\* bytes, 12 with 30, 37 with 141) decodes to the variant and field values
\* that the same buffer padded with zero bytes to the variant's current span
\* decodes to.
C16_LegacyPadding ==
  LegacyLength =>
    /\ y.kind = "value"
    /\ y = Union_decode(buf.v \o Zeros(FullSpan - Len(buf.v)))

\* C17: decoding a struct layout from a buffer shorter than the layout's span
\* fails; it never returns an entity (the legacy lengths of C16 apart).
C17_ShortBufferFails ==
  (pc = "decoded" /\ Len(buf.v) < FullSpan /\ ~LegacyLength) => y.kind = "throws"

\* the slots a lookup can answer from: the oracles kept by the constructor,
\* the market slots below numOracles, every token slot
RegistryOf(name) ==
  CASE name = "getOracleIndex" -> group.oracles
    [] name = "getSpotMarketIndex" ->
         [i \in 1 .. group.numOracles |-> group.spotMarkets[i].spotMarket]
    [] name = "getPerpMarketIndex" ->
         [i \in 1 .. group.numOracles |-> group.perpMarkets[i].perpMarket]
    [] name = "getTokenIndex" -> [i \in DOMAIN group.tokens |-> group.tokens[i].mint]
    [] name = "getRootBankIndex" ->
         [i \in DOMAIN group.tokens |-> group.tokens[i].rootBank]

\* C18: an index lookup of the group fails, with the not-found error, exactly
\* when no entry of the registry it searches has the key, and otherwise
\* returns an index at which the registry holds the key.
C18_IndexLookup ==
  (pc = "returned" /\ called[1] \in {"getOracleIndex", "getSpotMarketIndex",
                                     "getPerpMarketIndex", "getTokenIndex",
                                     "getRootBankIndex"}) =>
    LET entries == RegistryOf(called[1])
        key == called[2]
    IN /\ (result.kind = "throws") <=> (\A i \in DOMAIN entries : entries[i] # key)
       /\ result.kind = "throws" => result = NotFound
       /\ result.kind = "value" =>
            /\ result.v + 1 \in DOMAIN entries
            /\ entries[result.v + 1] = key

C18_Witness ==
  /\ pc = "returned"
  /\ called = <<"getTokenIndex", KeyOf(MAX_TOKENS)>>
  /\ result = Returns(QUOTE_INDEX)
  /\ group.numOracles = NumOracles

Settled == pc = "returned" /\ called[1] = "settlePnl" /\ result.kind = "sent"

Counterparties == {i \in DOMAIN result.instructions : result.instructions[i].type = "SettlePnl"}

OppositeSign(a, b) == (a > 0 /\ b < 0) \/ (a < 0 /\ b > 0)

\* C19: every counterparty settlePnl adds to the batch has PnL of the sign
\* opposite to the subject's PnL, and the subject's own account is never
\* added, whatever PnL the candidate list gives for it.
C19_OppositeSign ==
  Settled =>
    \A i \in Counterparties :
      /\ OppositeSign(x.pnl, result.instructions[i].pnl)
      /\ result.instructions[i].counterparty # x.publicKey

C19_Witness ==
  /\ Settled
  /\ Counterparties # {}
  /\ \E i \in DOMAIN result.accountsWithPnl :
       /\ result.accountsWithPnl[i].publicKey = x.publicKey
       /\ OppositeSign(x.pnl, result.accountsWithPnl[i].pnl)

RECURSIVE Offset(_)
Offset(n) ==
  IF n = 0 THEN 0
  ELSE Offset(n - 1)
       + (IF result.instructions[n].type = "SettlePnl"
          THEN Abs(result.instructions[n].pnl) ELSE 0)

remSign(pnl) == IF gt(pnl, ZERO_I80F48) THEN 1 ELSE -1

\* the subject's PnL once the fees of a negative subject are settled, and
\* after the first n instructions of the batch
RECURSIVE Remaining(_)
Remaining(n) ==
  IF n = 0 THEN x.pnl
  ELSE IF result.instructions[n].type = "SettleFees"
       THEN add(Remaining(n - 1), x.feesAccrued)
       ELSE add(Remaining(n - 1), result.instructions[n].pnl)

\* C22: a counterparty is added only while the sign of the subject's
\* remaining PnL has not flipped and the batch holds fewer than
\* MaxInstructions instructions; the batch never holds more.
C22_StopsAtFlipOrCap ==
  Settled =>
    /\ Len(result.instructions) <= MaxInstructions
    /\ \A i \in Counterparties :
         /\ i - 1 < MaxInstructions
         /\ remSign(Remaining(i - 1)) = result.sign

\* C30: every transaction settlePnl hands to sendTransaction holds at least
\* one instruction.
C30_NeverSendsEmpty ==
  Settled => result.instructions # <<>>

\* quote plus the weighted contributions of one kind over the first n markets
RECURSIVE QuotePlus(_, _, _)
QuotePlus(quote, term, n) ==
  IF n = 0 THEN quote ELSE add(QuotePlus(quote, term, n - 1), term[n - 1])

\* C28: the spot health getHealthsFromComponents returns is the quote
\* component plus the weighted spot contributions only, and the perp health
\* is the quote component plus the weighted perp contributions only.
C28_IndependentHealths ==
  (pc = "returned" /\ called[1] = "getHealthsFromComponents") =>
    LET n == group.numOracles
        spotTerms == [i \in 0 .. (n - 1) |-> spotHealthTerm(comp.spot, i, called[2])]
        perpTerms == [i \in 0 .. (n - 1) |-> perpHealthTerm(comp.perps, i, called[2])]
    IN /\ result.v.spot = QuotePlus(called[3], spotTerms, n)
       /\ result.v.perp = QuotePlus(called[3], perpTerms, n)

\* C29: the raw integer of a fixed-point value is within MIN_BN .. MAX_BN
\* after every operation, the in-place ones included: neither the object
\* operated on nor a value returned is ever outside the interval.
C29_StaysInRange ==
  /\ InRange(x)
  /\ (pc = "returned" /\ result.kind = "value") => InRange(result.v)

RateReturned == Returned("getBorrowRate") /\ result.kind = "value"

\* utilization as getBorrowRate computes it, deposits exceeding borrows
Utilization == div(getUiTotalBorrow.v, getUiTotalDeposit.v)

\* rate lies on the line through (fromUtil, fromRate) and (toUtil, toRate) at
\* `utilization`, up to the truncation of the slope and of the product: not
\* above the line and less than two units of the last place below it
OnLine(rate, utilization, fromUtil, fromRate, toUtil, toRate) ==
  LET rise == (toRate - fromRate) * (utilization - fromUtil)
      run == toUtil - fromUtil
  IN /\ (rate - fromRate) * run <= rise
     /\ (rate - fromRate + 2) * run > rise

OnCurve(rate) ==
  /\ ~gt(Utilization, x.optimalUtil) =>
       OnLine(rate, Utilization, 0, ZERO_I80F48, x.optimalUtil, x.optimalRate)
  /\ gt(Utilization, x.optimalUtil) =>
       OnLine(rate, Utilization, x.optimalUtil, x.optimalRate, ONE_I80F48, x.maxRate)
  /\ rate >= ZERO_I80F48
  /\ rate <= x.maxRate

\* C24: getBorrowRate is zero when deposits and borrows are both zero and
\* maxRate when borrows otherwise reach deposits; below that it follows the
\* line from 0 at utilization 0 to optimalRate at optimalUtil, then the line
\* from optimalRate at optimalUtil to maxRate at utilization 1, and never
\* exceeds maxRate.
C24_BorrowRateCurve ==
  RateReturned =>
    LET totalBorrows == getUiTotalBorrow.v
        totalDeposits == getUiTotalDeposit.v
    IN IF totalDeposits = ZERO_I80F48 /\ totalBorrows = ZERO_I80F48
       THEN result.v = ZERO_I80F48
       ELSE IF totalDeposits <= totalBorrows THEN result.v = x.maxRate
       ELSE OnCurve(result.v)

\* a rate on the second slope, strictly between optimalRate and maxRate
C24_Witness ==
  /\ RateReturned
  /\ getUiTotalDeposit.v > getUiTotalBorrow.v
  /\ gt(Utilization, x.optimalUtil)
  /\ x.optimalRate < result.v
  /\ result.v < x.maxRate

\* C24 as stated: the rate is maxRate whenever deposits do not exceed
\* borrows, and on the curve otherwise.
C24_MaxRateWithoutDeposits ==
  RateReturned =>
    IF getUiTotalDeposit.v <= getUiTotalBorrow.v
    THEN result.v = x.maxRate
    ELSE OnCurve(result.v)

\* the events the ring buffer holds, in queue order from the head
HeldEvents == [i \in 1 .. x.count |-> slotAt(i - 1)]

Resolutions ==
  {i \in DOMAIN x.sent :
     x.sent[i].type \in {"ResolvePerpBankruptcy", "ResolveTokenBankruptcy"}}

\* C23: the liquidation script issues a bankruptcy resolution only after
\* its two liquidation transactions and only for a liqee whose reloaded
\* account is marked bankrupt.
C23_ScriptResolvesBankruptOnly ==
  \A i \in Resolutions :
    x.sent[i].by = "test" =>
      /\ x.sent[i].isBankrupt
      /\ \E j, k \in 1 .. i - 1 :
           /\ j < k
           /\ x.sent[j].type = "LiquidatePerpMarket" /\ x.sent[j].by = "test"
           /\ x.sent[k].type = "LiquidateTokenAndPerp" /\ x.sent[k].by = "test"

C23_Witness ==
  \E i \in Resolutions : x.sent[i].by = "test" /\ x.sent[i].isBankrupt

\* C23 as stated: no bankruptcy resolution is issued for an account that is
\* not marked bankrupt, and each follows a liquidation.
C23_ResolvesBankruptOnly ==
  \A i \in Resolutions :
    /\ x.sent[i].isBankrupt
    /\ \E j \in 1 .. i - 1 :
         x.sent[j].type \in {"LiquidatePerpMarket", "LiquidateTokenAndPerp",
                            "LiquidateTokenAndToken"}

\* C26: every call of awaitTransactionSignatureConfirmation eventually
\* settles, by the time the timer has fired at the latest, and the polling
\* loop stops once it has settled.
C26_EventuallySettles ==
  /\ x.started ~> (x.promise # "pending")
  /\ [](x.timer = "fired" => x.promise # "pending")
  /\ (x.promise # "pending") ~> (x.loop = "exited")

\* C27: once sendTransaction or sendSignedTransaction has returned a
\* signature or thrown, the raw transaction is submitted no further time.
C27_NoResendAfterReturn ==
  [][Finished => x'.submitted = x.submitted]_vars

====
